---- MODULE Spec2Model ----
(***************************************************************************)
(* CiteRAG: the text chunker (backend/app/services/chunker.py) and the     *)
(* query pipeline's citation mapping (backend/app/services/llm_service.py, *)
(* backend/app/routers/query.py).                                          *)
(*                                                                         *)
(* Texts are sequences of one-character strings, so that splitting,        *)
(* stripping, joining and the citation regex are computed on characters.   *)
(***************************************************************************)
EXTENDS Integers, Sequences, FiniteSets, TLC

VARIABLES
    text,                     \* chunk_text argument
    chunk_size,               \* TextChunker.chunk_size
    chunk_overlap,            \* TextChunker.chunk_overlap
    encoding,                 \* TextChunker.encoder (which tokenizer counts)
    sentences,                \* chunk_text local: the split sentences
    sent_i,                   \* index of the sentence the for loop is at
    chunks,                   \* chunk_text local: the chunks emitted so far
    current_chunk_sentences,  \* indices (into sentences) of the open chunk
    current_token_count,      \* running token count of the open chunk
    position,                 \* next chunk position
    seed_sentences,           \* history: overlap seed the open chunk started with
    seed_tokens,              \* history: overlap_tokens the open chunk started with
    trace,                    \* history: per emitted chunk, its sentences and seed
    pc,                       \* control point of chunk_text
    query,                    \* QueryRequest.query
    retrieved_chunks,         \* query_text local: retrieval_results["chunks"]
    reranked_chunks,          \* query_text local: rerank_results["reranked_chunks"]
    rerank_attempt,           \* RerankerService.rerank: attempt of the retry loop
    rerank_fallback,          \* rerank result metadata: fallback
    sources_text,             \* generate_answer local: the numbered source block
    llm_attempt,              \* LLMService.generate_answer: attempt of the retry loop
    answer_text,              \* the language model's reply, stripped
    llm_citations,            \* llm_results["citations"]
    llm_fallback,             \* llm result metadata: fallback
    response,                 \* what query_text returns or raises
    qpc,                      \* control point of query_text
    top_k,                    \* RerankerService.rerank argument top_k: <<>> is
                              \* None, <<k>> is the number k
    rerank_results,           \* rerank local: results of the rerank API's reply
    calls,                    \* the requests the current ingest or query
                              \* has sent to the external services, each
                              \* with whether it was answered and the sleep
                              \* that followed it
    index_matches,            \* retrieve local: results.matches
    retrieved_count,          \* retrieval_results["count"]
    request_top_k,            \* QueryRequest.top_k
    retrieve_top_k,           \* RetrievalService.retrieve argument top_k (0
                              \* before the call)
    ingest_pc,                \* control point of ingest_text
    vector_index,             \* the vectors the Pinecone index holds
    ingest_log,               \* history: per finished ingest_text, its
                              \* response and the index it left
    upserted,                 \* history: the chunks whose vectors the index
                              \* has accepted, in the order of acceptance
    in_flight                 \* the requests served at the same time: per
                              \* request, its handler's locals

chunkerVars == <<text, chunk_size, chunk_overlap, encoding, sentences, sent_i,
                 chunks, current_chunk_sentences, current_token_count, position,
                 seed_sentences, seed_tokens, trace, pc>>

queryLocals == <<query, retrieved_chunks, reranked_chunks, rerank_attempt,
                 rerank_fallback, sources_text, llm_attempt, answer_text,
                 llm_citations, llm_fallback, response, qpc, top_k,
                 rerank_results, index_matches, retrieved_count,
                 request_top_k, retrieve_top_k>>

queryVars == <<queryLocals, calls>>

ingestVars == <<ingest_pc, vector_index, ingest_log, upserted, in_flight>>

vars == <<chunkerVars, queryVars, ingestVars>>

(***************************************************************************)
(* Bounds of the model                                                     *)
(***************************************************************************)
MaxSentences == 4     \* sentences in a generated input text
MaxWords == 3         \* words in one generated sentence
MaxChunkSize == 4     \* chunk_size ranges over 1..MaxChunkSize
MaxOverlap == 2       \* chunk_overlap ranges over 0..MaxOverlap

(***************************************************************************)
(* QueryRequest.top_k (schemas.py line 58) and the top_k query_text passes *)
(* to retrieve (query.py line 60)                                          *)
(***************************************************************************)
RequestTopKDefault == 5
RequestTopKMin == 1
RequestTopKMax == 20
RetrieveTopK == 20

(***************************************************************************)
(* The end-to-end scenario of the test fixture small_chunker               *)
(***************************************************************************)
ScenarioChunkSize == 50
ScenarioOverlap == 10
ScenarioSentences == 20
ScenarioWords == 5

(***************************************************************************)
(* Characters                                                              *)
(***************************************************************************)
SpaceChars == {" ", "\n"}
PunctChars == {".", "!", "?"}
UpperChars ==
    {"A", "B", "C", "D", "E", "F", "G", "H", "I", "J", "K", "L", "M",
     "N", "O", "P", "Q", "R", "S", "T", "U", "V", "W", "X", "Y", "Z"}

IsSpace(c) == c \in SpaceChars
IsPunct(c) == c \in PunctChars
IsUpper(c) == c \in UpperChars

SeqsUpTo(S, n) == UNION {[1..k -> S] : k \in 0..n}

\* str.strip(): drop leading and trailing whitespace
RECURSIVE LStrip(_)
LStrip(t) == IF t # <<>> /\ IsSpace(Head(t)) THEN LStrip(Tail(t)) ELSE t

RECURSIVE RStrip(_)
RStrip(t) ==
    IF t # <<>> /\ IsSpace(t[Len(t)]) THEN RStrip(SubSeq(t, 1, Len(t) - 1)) ELSE t

Strip(t) == RStrip(LStrip(t))

\* `not text.strip()`
IsBlankNoStrip(t) == t = <<>>
IsBlank(t) == Strip(t) = <<>>

(***************************************************************************)
(* count_tokens: len(self.encoder.encode(text)).  The encoder is chosen by *)
(* encoding_name; two deterministic encoders are modelled: "word" counts   *)
(* the maximal runs of non-space characters (its counts add up across a    *)
(* join by one space), "char" counts characters (the joining space is a    *)
(* token of its own).                                                      *)
(***************************************************************************)
WordCount(t) ==
    Cardinality({i \in 1..Len(t) :
                    /\ ~IsSpace(t[i])
                    /\ (i = 1 \/ IsSpace(t[i - 1]))})

count_tokens(t) == IF encoding = "word" THEN WordCount(t) ELSE Len(t)

(***************************************************************************)
(* split_into_sentences: re.split on                                       *)
(*   (?<=[.!?])\s+(?=[A-Z])  |  (?<=[.!?])$                                *)
(* then strip every piece and drop the empty ones.                         *)
(***************************************************************************)
\* last index of the whitespace run that starts at i (i - 1 when there is none)
RECURSIVE WsRunEnd(_, _)
WsRunEnd(t, i) ==
    IF i <= Len(t) /\ IsSpace(t[i]) THEN WsRunEnd(t, i + 1) ELSE i - 1

\* the first alternative without its lookahead (?=[A-Z])
BoundaryAtNoLookahead(t, i) ==
    /\ i >= 2
    /\ i <= Len(t)
    /\ IsPunct(t[i - 1])
    /\ IsSpace(t[i])

\* the first alternative of the pattern matches at i
BoundaryAt(t, i) ==
    /\ i >= 2
    /\ i <= Len(t)
    /\ IsPunct(t[i - 1])
    /\ IsSpace(t[i])
    /\ WsRunEnd(t, i) < Len(t)
    /\ IsUpper(t[WsRunEnd(t, i) + 1])

\* the pieces re.split returns for t from index i on: the text up to the next
\* match, then the pieces after it; the second alternative matches (empty) at
\* the end of a text that ends in punctuation and leaves an empty last piece,
\* and `$` also matches before a newline that ends the text
RECURSIVE SplitFrom(_, _)
SplitFrom(t, i) ==
    LET matches == {j \in i..Len(t) : BoundaryAt(t, j)}
    IN  IF matches = {}
        THEN IF Len(t) > 0 /\ IsPunct(t[Len(t)])
             THEN <<SubSeq(t, i, Len(t)), <<>>>>
             ELSE IF Len(t) > 1 /\ t[Len(t)] = "\n" /\ IsPunct(t[Len(t) - 1])
                  THEN <<SubSeq(t, i, Len(t) - 1), <<"\n">>>>
                  ELSE <<SubSeq(t, i, Len(t))>>
        ELSE LET m == CHOOSE j \in matches : \A k \in matches : j <= k
             IN  <<SubSeq(t, i, m - 1)>> \o SplitFrom(t, WsRunEnd(t, m) + 1)

RECURSIVE StripAndFilter(_)
StripAndFilter(pieces) ==
    IF pieces = <<>> THEN <<>>
    ELSE IF Strip(Head(pieces)) # <<>>
         THEN <<Strip(Head(pieces))>> \o StripAndFilter(Tail(pieces))
         ELSE StripAndFilter(Tail(pieces))

split_into_sentences(t) == StripAndFilter(SplitFrom(t, 1))

(***************************************************************************)
(* " ".join(current_chunk_sentences), on sentence indices                  *)
(***************************************************************************)
RECURSIVE JoinSentences(_)
JoinSentences(idxs) ==
    IF idxs = <<>> THEN <<>>
    ELSE IF Len(idxs) = 1 THEN sentences[Head(idxs)]
         ELSE sentences[Head(idxs)] \o <<" ">> \o JoinSentences(Tail(idxs))

\* TextChunk(text=..., metadata=ChunkMetadata(...))
Source == <<"u", "s", "e", "r", "_", "i", "n", "p", "u", "t">>
Title == "None"
Section == "None"

TextChunk(txt, pos, cnt) ==
    [text |-> txt, source |-> Source, title |-> Title, section |-> Section,
     position |-> pos, token_count |-> cnt]

\* history record of an emitted chunk
TraceEntry(idxs, seed, seedTokens, over) ==
    [sents |-> idxs, seed |-> seed, seed_tokens |-> seedTokens, oversized |-> over]

(***************************************************************************)
(* The overlap seed: scan the closed chunk's sentences from the end, keep  *)
(* them while the cumulative count stays within chunk_overlap, stop at the *)
(* first that does not fit.  k is the sentence the scan is at.             *)
(***************************************************************************)
RECURSIVE SeedScan(_, _, _, _)
SeedScan(cur, k, overlap_sentences, overlap_tokens) ==
    IF k = 0 THEN [sents |-> overlap_sentences, tokens |-> overlap_tokens]
    ELSE LET s_tokens == count_tokens(sentences[cur[k]])
         IN  IF overlap_tokens + s_tokens <= chunk_overlap
             THEN SeedScan(cur, k - 1, <<cur[k]>> \o overlap_sentences,
                           overlap_tokens + s_tokens)
             ELSE [sents |-> overlap_sentences, tokens |-> overlap_tokens]

\* the scan with `continue` in place of `break`
RECURSIVE SeedScanNoBreak(_, _, _, _)
SeedScanNoBreak(cur, k, overlap_sentences, overlap_tokens) ==
    IF k = 0 THEN [sents |-> overlap_sentences, tokens |-> overlap_tokens]
    ELSE LET s_tokens == count_tokens(sentences[cur[k]])
         IN  IF overlap_tokens + s_tokens <= chunk_overlap
             THEN SeedScanNoBreak(cur, k - 1, <<cur[k]>> \o overlap_sentences,
                                  overlap_tokens + s_tokens)
             ELSE SeedScanNoBreak(cur, k - 1, overlap_sentences, overlap_tokens)

OverlapSeedNoBreak(cur) == SeedScanNoBreak(cur, Len(cur), <<>>, 0)
OverlapSeedNone(cur) == [sents |-> <<>>, tokens |-> 0]
\* the whole closed chunk carried over as the seed
OverlapSeedWhole(cur) == [sents |-> cur, tokens |-> current_token_count]
OverlapSeed(cur) == SeedScan(cur, Len(cur), <<>>, 0)

\* `potential_token_count > self.chunk_size and current_chunk_sentences`
WouldOverflowLate(potential_token_count) ==
    /\ potential_token_count > chunk_size + 1
    /\ current_chunk_sentences # <<>>
WouldOverflow(potential_token_count) ==
    /\ potential_token_count > chunk_size
    /\ current_chunk_sentences # <<>>

(***************************************************************************)
(* Input texts                                                             *)
(***************************************************************************)
\* a sentence of n words: "A a a."
Sentence(n) ==
    [i \in 1..(2 * n) |->
        IF i = 1 THEN "A"
        ELSE IF i = 2 * n THEN "."
        ELSE IF i % 2 = 0 THEN " " ELSE "a"]

RECURSIVE BuildText(_)
BuildText(lens) ==
    IF lens = <<>> THEN <<>>
    ELSE IF Len(lens) = 1 THEN Sentence(Head(lens))
         ELSE Sentence(Head(lens)) \o <<" ">> \o BuildText(Tail(lens))

Pads == {<<>>, <<" ">>, <<" ", " ">>}

InputTexts ==
    {BuildText(lens) : lens \in SeqsUpTo(1..MaxWords, MaxSentences)}
        \cup {p \o BuildText(lens) \o p :
                 p \in Pads, lens \in SeqsUpTo(1..MaxWords, 1)}

ScenarioText == BuildText([i \in 1..ScenarioSentences |-> ScenarioWords])

\* the ingest endpoint before a request, over an empty index
IngestParked ==
    /\ ingest_pc = "idle"
    /\ vector_index = {}
    /\ ingest_log = <<>>
    /\ upserted = <<>>
    /\ in_flight = <<>>

\* the query pipeline before a request
QueryIdle ==
    /\ retrieved_chunks = <<>>
    /\ reranked_chunks = <<>>
    /\ rerank_attempt = 0
    /\ rerank_fallback = FALSE
    /\ sources_text = <<>>
    /\ llm_attempt = 0
    /\ answer_text = <<>>
    /\ llm_citations = <<>>
    /\ llm_fallback = FALSE
    /\ response = [status |-> 0]
    /\ rerank_results = <<>>
    /\ calls = <<>>
    /\ index_matches = <<>>
    /\ retrieved_count = 0

ChunkerIdle ==
    /\ sentences = <<>>
    /\ sent_i = 0
    /\ chunks = <<>>
    /\ current_chunk_sentences = <<>>
    /\ current_token_count = 0
    /\ position = 0
    /\ seed_sentences = <<>>
    /\ seed_tokens = 0
    /\ trace = <<>>
    /\ pc = "start"

InitChunker ==
    /\ request_top_k = RequestTopKDefault
    /\ retrieve_top_k = 0
    /\ IngestParked
    /\ \/ /\ text \in InputTexts
          /\ chunk_size \in 1..MaxChunkSize
          /\ chunk_overlap \in 0..MaxOverlap
          /\ encoding \in {"word", "char"}
       \/ /\ text = ScenarioText
          /\ chunk_size = ScenarioChunkSize
          /\ chunk_overlap = ScenarioOverlap
          /\ encoding = "word"
    /\ ChunkerIdle
    /\ QueryIdle
    /\ query = <<>>
    /\ qpc = "idle"
    /\ top_k = <<>>

(***************************************************************************)
(* chunk_text                                                              *)
(***************************************************************************)
\* lines 94-95: empty or whitespace-only text
ChunkEmpty ==
    /\ pc = "start"
    /\ IsBlank(text)
    /\ pc' = "done"
    /\ UNCHANGED <<text, chunk_size, chunk_overlap, encoding, sentences,
                   sent_i, chunks, current_chunk_sentences,
                   current_token_count, position, seed_sentences, seed_tokens,
                   trace>>
    /\ UNCHANGED <<queryVars, ingestVars>>

\* lines 97-107: split, fall back to the whole text, initialise the loop
SplitText ==
    /\ pc = "start"
    /\ ~IsBlank(text)
    /\ sentences' = LET s == split_into_sentences(text)
                    IN  IF s = <<>> THEN <<text>> ELSE s
    /\ sent_i' = 1
    /\ chunks' = <<>>
    /\ current_chunk_sentences' = <<>>
    /\ current_token_count' = 0
    /\ position' = 0
    /\ seed_sentences' = <<>>
    /\ seed_tokens' = 0
    /\ trace' = <<>>
    /\ pc' = "loop"
    /\ UNCHANGED <<text, chunk_size, chunk_overlap, encoding>>
    /\ UNCHANGED <<queryVars, ingestVars>>

\* lines 113-143, with the pending chunk left open instead of flushed first
OversizedSentenceKeepPending ==
    /\ pc = "loop"
    /\ sent_i <= Len(sentences)
    /\ count_tokens(sentences[sent_i]) > chunk_size
    /\ chunks' = Append(chunks,
                        TextChunk(sentences[sent_i], position,
                                  count_tokens(sentences[sent_i])))
    /\ trace' = Append(trace, TraceEntry(<<sent_i>>, <<>>, 0, TRUE))
    /\ position' = position + 1
    /\ sent_i' = sent_i + 1
    /\ UNCHANGED <<text, chunk_size, chunk_overlap, encoding, sentences,
                   current_chunk_sentences, current_token_count,
                   seed_sentences, seed_tokens, pc>>
    /\ UNCHANGED <<queryVars, ingestVars>>

\* lines 113-143, without the `position += 1` of line 127
OversizedSentenceSamePosition ==
    /\ pc = "loop"
    /\ sent_i <= Len(sentences)
    /\ LET sentence == sentences[sent_i]
           sentence_tokens == count_tokens(sentence)
           pending == current_chunk_sentences # <<>>
           flushed == IF pending
                      THEN Append(chunks,
                                  TextChunk(JoinSentences(current_chunk_sentences),
                                            position, current_token_count))
                      ELSE chunks
           flushedTrace == IF pending
                           THEN Append(trace,
                                       TraceEntry(current_chunk_sentences,
                                                  seed_sentences, seed_tokens, FALSE))
                           ELSE trace
       IN  /\ sentence_tokens > chunk_size
           /\ chunks' = Append(flushed, TextChunk(sentence, position, sentence_tokens))
           /\ trace' = Append(flushedTrace, TraceEntry(<<sent_i>>, <<>>, 0, TRUE))
           /\ position' = position + 1
    /\ current_chunk_sentences' = <<>>
    /\ current_token_count' = 0
    /\ seed_sentences' = <<>>
    /\ seed_tokens' = 0
    /\ sent_i' = sent_i + 1
    /\ UNCHANGED <<text, chunk_size, chunk_overlap, encoding, sentences, pc>>
    /\ UNCHANGED <<queryVars, ingestVars>>

\* lines 113-143: a sentence over chunk_size is a chunk of its own, after the
\* pending chunk (if any) has been emitted
OversizedSentence ==
    /\ pc = "loop"
    /\ sent_i <= Len(sentences)
    /\ LET sentence == sentences[sent_i]
           sentence_tokens == count_tokens(sentence)
           pending == current_chunk_sentences # <<>>
           flushed == IF pending
                      THEN Append(chunks,
                                  TextChunk(JoinSentences(current_chunk_sentences),
                                            position, current_token_count))
                      ELSE chunks
           flushedTrace == IF pending
                           THEN Append(trace,
                                       TraceEntry(current_chunk_sentences,
                                                  seed_sentences, seed_tokens, FALSE))
                           ELSE trace
           flushedPosition == IF pending THEN position + 1 ELSE position
       IN  /\ sentence_tokens > chunk_size
           /\ chunks' = Append(flushed,
                               TextChunk(sentence, flushedPosition, sentence_tokens))
           /\ trace' = Append(flushedTrace, TraceEntry(<<sent_i>>, <<>>, 0, TRUE))
           /\ position' = flushedPosition + 1
    /\ current_chunk_sentences' = <<>>
    /\ current_token_count' = 0
    /\ seed_sentences' = <<>>
    /\ seed_tokens' = 0
    /\ sent_i' = sent_i + 1
    /\ UNCHANGED <<text, chunk_size, chunk_overlap, encoding, sentences, pc>>
    /\ UNCHANGED <<queryVars, ingestVars>>

\* lines 145-181, branch taken at line 148, with the sentence left for the
\* next turn of the loop instead of appended after the seed
CloseChunkKeepSentence ==
    /\ pc = "loop"
    /\ sent_i <= Len(sentences)
    /\ LET sentence_tokens == count_tokens(sentences[sent_i])
           potential_token_count == current_token_count + sentence_tokens
           seed == OverlapSeed(current_chunk_sentences)
       IN  /\ sentence_tokens <= chunk_size
           /\ WouldOverflow(potential_token_count)
           /\ chunks' = Append(chunks,
                               TextChunk(JoinSentences(current_chunk_sentences),
                                         position, current_token_count))
           /\ trace' = Append(trace,
                              TraceEntry(current_chunk_sentences, seed_sentences,
                                         seed_tokens, FALSE))
           /\ position' = position + 1
           /\ seed_sentences' = seed.sents
           /\ seed_tokens' = seed.tokens
           /\ current_chunk_sentences' = seed.sents
           /\ current_token_count' = seed.tokens
    /\ UNCHANGED <<text, chunk_size, chunk_overlap, encoding, sentences,
                   sent_i, pc>>
    /\ UNCHANGED <<queryVars, ingestVars>>

\* lines 145-181, branch taken at line 148: close the open chunk, seed the
\* next one with the overlap, append the sentence
CloseChunk ==
    /\ pc = "loop"
    /\ sent_i <= Len(sentences)
    /\ LET sentence_tokens == count_tokens(sentences[sent_i])
           potential_token_count == current_token_count + sentence_tokens
           seed == OverlapSeed(current_chunk_sentences)
       IN  /\ sentence_tokens <= chunk_size
           /\ WouldOverflow(potential_token_count)
           /\ chunks' = Append(chunks,
                               TextChunk(JoinSentences(current_chunk_sentences),
                                         position, current_token_count))
           /\ trace' = Append(trace,
                              TraceEntry(current_chunk_sentences, seed_sentences,
                                         seed_tokens, FALSE))
           /\ position' = position + 1
           /\ seed_sentences' = seed.sents
           /\ seed_tokens' = seed.tokens
           /\ current_chunk_sentences' = Append(seed.sents, sent_i)
           /\ current_token_count' = seed.tokens + sentence_tokens
    /\ sent_i' = sent_i + 1
    /\ UNCHANGED <<text, chunk_size, chunk_overlap, encoding, sentences, pc>>
    /\ UNCHANGED <<queryVars, ingestVars>>

\* lines 145-181, branch not taken at line 148: append the sentence
AppendSentence ==
    /\ pc = "loop"
    /\ sent_i <= Len(sentences)
    /\ LET sentence_tokens == count_tokens(sentences[sent_i])
           potential_token_count == current_token_count + sentence_tokens
       IN  /\ sentence_tokens <= chunk_size
           /\ ~WouldOverflow(potential_token_count)
           /\ current_chunk_sentences' = Append(current_chunk_sentences, sent_i)
           /\ current_token_count' = current_token_count + sentence_tokens
    /\ sent_i' = sent_i + 1
    /\ UNCHANGED <<text, chunk_size, chunk_overlap, encoding, sentences,
                   chunks, position, seed_sentences, seed_tokens, trace, pc>>
    /\ UNCHANGED <<queryVars, ingestVars>>

\* lines 183-197 with the final pending chunk dropped
FinalChunkDropped ==
    /\ pc = "loop"
    /\ sent_i > Len(sentences)
    /\ pc' = "done"
    /\ UNCHANGED <<text, chunk_size, chunk_overlap, encoding, sentences,
                   sent_i, chunks, current_chunk_sentences,
                   current_token_count, position, seed_sentences, seed_tokens,
                   trace>>
    /\ UNCHANGED <<queryVars, ingestVars>>

\* lines 183-197: emit the final pending chunk, return
FinalChunk ==
    /\ pc = "loop"
    /\ sent_i > Len(sentences)
    /\ IF current_chunk_sentences # <<>>
       THEN /\ chunks' = Append(chunks,
                                TextChunk(JoinSentences(current_chunk_sentences),
                                          position, current_token_count))
            /\ trace' = Append(trace,
                               TraceEntry(current_chunk_sentences, seed_sentences,
                                          seed_tokens, FALSE))
       ELSE UNCHANGED <<chunks, trace>>
    /\ pc' = "done"
    /\ UNCHANGED <<text, chunk_size, chunk_overlap, encoding, sentences,
                   sent_i, current_chunk_sentences, current_token_count,
                   position, seed_sentences, seed_tokens>>
    /\ UNCHANGED <<queryVars, ingestVars>>

NextChunker ==
    \/ ChunkEmpty
    \/ SplitText
    \/ OversizedSentence
    \/ CloseChunk
    \/ AppendSentence
    \/ FinalChunk

SpecChunker == InitChunker /\ [][NextChunker]_vars

(***************************************************************************)
(* split_into_sentences on its own: any short text over SplitChars, and    *)
(* the text of test_split_into_sentences                                   *)
(***************************************************************************)
MaxTextLen == 6       \* characters in a generated text for split_into_sentences

SplitChars == {"A", "a", ".", " ", "\n"}

\* test_chunker.py line 28
FirstSentence ==
    <<"F", "i", "r", "s", "t", " ", "s", "e", "n", "t", "e", "n", "c", "e",
      ".">>
SecondSentence ==
    <<"S", "e", "c", "o", "n", "d", " ", "s", "e", "n", "t", "e", "n", "c",
      "e", "!">>
ThirdSentence ==
    <<"T", "h", "i", "r", "d", " ", "s", "e", "n", "t", "e", "n", "c", "e",
      "?">>
FourthSentence ==
    <<"F", "o", "u", "r", "t", "h", " ", "s", "e", "n", "t", "e", "n", "c",
      "e", ".">>
FourSentencesText ==
    FirstSentence \o <<" ">> \o SecondSentence \o <<" ">> \o ThirdSentence
        \o <<" ">> \o FourthSentence

InitSplit ==
    /\ request_top_k = RequestTopKDefault
    /\ retrieve_top_k = 0
    /\ IngestParked
    /\ text \in SeqsUpTo(SplitChars, MaxTextLen) \cup {FourSentencesText}
    /\ chunk_size = 1
    /\ chunk_overlap = 0
    /\ encoding = "word"
    /\ ChunkerIdle
    /\ QueryIdle
    /\ query = <<>>
    /\ qpc = "idle"
    /\ top_k = <<>>

\* chunker.py lines 66-73: sentences = self.split_into_sentences(text)
SplitSentences ==
    /\ pc = "start"
    /\ sentences' = split_into_sentences(text)
    /\ pc' = "split"
    /\ UNCHANGED <<text, chunk_size, chunk_overlap, encoding, sent_i, chunks,
                   current_chunk_sentences, current_token_count, position,
                   seed_sentences, seed_tokens, trace>>
    /\ UNCHANGED <<queryVars, ingestVars>>

NextSplit == SplitSentences

SpecSplit == InitSplit /\ [][NextSplit]_vars

(***************************************************************************)
(* The query pipeline: retrieve -> rerank -> generate_answer -> response   *)
(***************************************************************************)
MaxMatches == 3         \* matches the Vector Index returns
MaxQueryPieces == 2     \* pieces of a language-model reply in the pipeline
MaxAnswerPieces == 4    \* pieces of an answer text given to _extract_citations
MaxCiteChunks == 4      \* chunks given to _extract_citations

MaxRerankChunks == 6    \* chunks given to a direct call of rerank
MaxPermuted == 4        \* up to this many documents the rerank API may answer
                        \* in any order; above it, in index order or reversed
MaxTopK == 3            \* a direct call of rerank asks for 1..MaxTopK chunks

RerankTopK == 5
RerankDefaultTopK == 5
RerankMaxRetries == 3
LLMMaxRetries == 3
EmbedMaxRetries == 3
EmbedRetryDelay == 1
RerankRetryDelay == 1

DigitChars == <<"0", "1", "2", "3", "4", "5", "6", "7", "8", "9">>
IsDigit(c) == \E d \in 1..Len(DigitChars) : DigitChars[d] = c
DigitValue(c) == (CHOOSE d \in 1..Len(DigitChars) : DigitChars[d] = c) - 1

\* the marker "[n]" for one digit n
Marker(n) == <<"[", DigitChars[n + 1], "]">>

\* the concatenations of at most n pieces of P
RECURSIVE Concats(_, _)
Concats(P, n) ==
    IF n = 0 THEN {<<>>}
    ELSE LET shorter == Concats(P, n - 1)
         IN  shorter \cup {a \o piece : a \in shorter, piece \in P}

CitePieces ==
    {Marker(0), Marker(1), Marker(2), Marker(5), <<"[", "1", "2", "]">>,
     <<"[">>, <<"1">>, <<"]">>}
CiteAnswers == Concats(CitePieces, MaxAnswerPieces)

QueryPieces == {Marker(1), Marker(2), Marker(3), <<" ">>}
QueryAnswers == Concats(QueryPieces, MaxQueryPieces)

\* the replies to a prompt of n numbered sources: for a prompt of more than
\* MaxMatches sources, replies that cite the last source and the number
\* after it
QueryAnswersFor(n) ==
    IF n <= MaxMatches THEN QueryAnswers
    ELSE Concats({Marker(1), Marker(n), Marker(n + 1)}, MaxQueryPieces)

\* the numbers of matches the index returns: few, or one more than the
\* reranker is asked for
MatchCounts == (1..MaxMatches) \cup {RerankTopK + 1}

None == "None"
Apology ==
    <<"I apologize, but I encountered an error while processing your query. Please try again.">>
NoInformation == <<"No relevant information found in the provided sources.">>

\* an exception raised by a service, as query.py lines 118-122 report it
Failure(msg) == [status |-> 500, detail |-> "Failed to query: " \o msg]
QueryEmpty == "Query cannot be empty"
NoChunksToRerank == "No chunks to rerank"
EmbeddingFailed == "Failed to generate embedding after 3 attempts"
IndexQueryFailed == "Failed to query Pinecone with MMR"
\* query.py lines 69-73
NotFound == [status |-> 404, detail |-> "No relevant chunks found in the database"]

\* a request to the service named s, answered (ok) or failed, after which
\* the caller does not sleep
Request(s, ok) == [service |-> s, ok |-> ok, wait |-> 0]

\* a failed request to the service named s after which the caller sleeps
\* for delay (time.sleep) before the next attempt
Retried(s, delay) == [service |-> s, ok |-> FALSE, wait |-> delay]

\* embedding_service.py lines 54-76 (s = "embed") and lines 102-125
\* (s = "embed_batch"): the requests of the retry loop when attempt number n
\* is the first that is answered
EmbedRequestsTo(s, n) ==
    [k \in 1..n |-> IF k = n THEN Request(s, TRUE)
                             ELSE Retried(s, EmbedRetryDelay * k)]

\* the requests of the retry loop when no attempt is answered
EmbedRequestsFailedTo(s) ==
    [k \in 1..EmbedMaxRetries |->
        IF k = EmbedMaxRetries THEN Request(s, FALSE)
                               ELSE Retried(s, EmbedRetryDelay * k)]

EmbedRequests(n) == EmbedRequestsTo("embed", n)
EmbedRequestsFailed == EmbedRequestsFailedTo("embed")

\* `top_k or self.top_k`
EffectiveTopKIgnoringArgument(k) == RerankDefaultTopK
EffectiveTopK(k) == IF k = <<>> \/ k = <<0>> THEN RerankDefaultTopK ELSE k[1]

\* the k-th match of the Vector Index: id, score, stored metadata (the title
\* is stored only when the chunk had one)
IndexMatch(k) ==
    [id |-> k, score |-> 10 - k,
     metadata |-> [text |-> "text " \o ToString(k),
                   source |-> "doc " \o ToString(k),
                   title |-> IF k = 1 THEN None ELSE "title " \o ToString(k),
                   position |-> k + 2,
                   token_count |-> k]]

\* lines 76-89 reading the text from a key the index does not store
MatchToChunkNoText(match) ==
    [id |-> match.id,
     text |-> "",
     score |-> match.score,
     metadata |-> [source |-> match.metadata.source,
                   title |-> match.metadata.title,
                   position |-> match.metadata.position,
                   token_count |-> match.metadata.token_count]]

\* retrieval_service.py lines 76-89: a match as a chunk
MatchToChunk(match) ==
    [id |-> match.id,
     text |-> match.metadata.text,
     score |-> match.score,
     metadata |-> [source |-> match.metadata.source,
                   title |-> match.metadata.title,
                   position |-> match.metadata.position,
                   token_count |-> match.metadata.token_count]]

\* the k-th chunk of a reranked list
RerankedChunk(k) == MatchToChunk(IndexMatch(k)) @@ [reranker_score |-> 2]

\* retrieval_service.py lines 76-89: one chunk per match, in the matches' order
FormatMatches(ms) == [k \in 1..Len(ms) |-> MatchToChunk(ms[k])]

\* seq[:n]
Take(seq, n) == SubSeq(seq, 1, IF n < Len(seq) THEN n ELSE Len(seq))

\* what the external relevance model may answer for n documents: one result
\* {index, relevance_score} per document, in any order (for more than
\* MaxPermuted documents: in index order or in reverse index order)
RerankScores == {1, 2}
RerankResults(n) ==
    IF n <= MaxPermuted
    THEN {r \in [1..n -> [index : 0..(n - 1), relevance_score : RerankScores]] :
             \A a, b \in 1..n : a # b => r[a].index # r[b].index}
    ELSE {[k \in 1..n |-> [index |-> IF up THEN k - 1 ELSE n - k,
                            relevance_score |-> sc[k]]] :
             up \in BOOLEAN,
             sc \in {f \in [1..n -> RerankScores] :
                        \A k \in 3..n : f[k] = f[k - 2]}}

\* lines 105-116 with the score given to the chunk at the result's place in
\* the reply instead of the chunk at result["index"]
AttachScoresByArrival(results, cs) ==
    [a \in 1..Len(results) |->
        cs[a] @@ [reranker_score |-> results[a].relevance_score]]

\* reranker_service.py lines 105-116: chunks[idx].copy() with reranker_score
RECURSIVE AttachScores(_, _)
AttachScores(results, cs) ==
    IF results = <<>> THEN <<>>
    ELSE <<cs[Head(results).index + 1]
             @@ [reranker_score |-> Head(results).relevance_score]>>
            \o AttachScores(Tail(results), cs)

\* an insertion that puts x before the elements of equal score
InsertByScoreBeforeEqual(sorted, x) ==
    LET before == Cardinality({n \in 1..Len(sorted) :
                                  sorted[n].reranker_score > x.reranker_score})
    IN  SubSeq(sorted, 1, before) \o <<x>> \o SubSeq(sorted, before + 1, Len(sorted))

\* sorted(reranked, key=reranker_score, reverse=True): stable, descending
InsertByScore(sorted, x) ==
    LET before == Cardinality({n \in 1..Len(sorted) :
                                  sorted[n].reranker_score >= x.reranker_score})
    IN  SubSeq(sorted, 1, before) \o <<x>> \o SubSeq(sorted, before + 1, Len(sorted))

RECURSIVE SortFrom(_, _)
SortFrom(sorted, rest) ==
    IF rest = <<>> THEN sorted
    ELSE SortFrom(InsertByScore(sorted, Head(rest)), Tail(rest))

SortByScoreDesc(seq) == SortFrom(<<>>, seq)

\* llm_service.py lines 159-173: chunk i (1-based) becomes the source
\* "[i] title - section \n text"; an entry keeps the label, header and body
\* that the f-string prints (retrieved chunks carry no section)
FormatSourcesFromZero(cs) ==
    [i \in 1..Len(cs) |->
        [label |-> i - 1, title |-> cs[i].metadata.title, text |-> cs[i].text]]
FormatSources(cs) ==
    [i \in 1..Len(cs) |->
        [label |-> i, title |-> cs[i].metadata.title, text |-> cs[i].text]]

(***************************************************************************)
(* _extract_citations                                                      *)
(***************************************************************************)
\* last index of the digit run that starts at i (i - 1 when there is none)
RECURSIVE DigitsEnd(_, _)
DigitsEnd(t, i) ==
    IF i <= Len(t) /\ IsDigit(t[i]) THEN DigitsEnd(t, i + 1) ELSE i - 1

\* int(num_str)
RECURSIVE ParseInt(_, _)
ParseInt(digits, acc) ==
    IF digits = <<>> THEN acc
    ELSE ParseInt(Tail(digits), 10 * acc + DigitValue(Head(digits)))

\* r'\[(\d+)\]' matches at i
MarkerAt(t, i) ==
    /\ t[i] = "["
    /\ DigitsEnd(t, i + 1) >= i + 1
    /\ DigitsEnd(t, i + 1) < Len(t)
    /\ t[DigitsEnd(t, i + 1) + 1] = "]"

\* re.findall(citation_pattern, answer_text), each match as int(num_str)
RECURSIVE FindCitationNumbers(_, _)
FindCitationNumbers(t, i) ==
    IF i > Len(t) THEN <<>>
    ELSE IF MarkerAt(t, i)
         THEN <<ParseInt(SubSeq(t, i + 1, DigitsEnd(t, i + 1)), 0)>>
                 \o FindCitationNumbers(t, DigitsEnd(t, i + 1) + 2)
         ELSE FindCitationNumbers(t, i + 1)

\* lines 224-230: the distinct numbers in order of first appearance
RECURSIVE CitedIndices(_, _, _)
CitedIndices(nums, cited_indices, seen) ==
    IF nums = <<>> THEN cited_indices
    ELSE IF Head(nums) \notin seen
         THEN CitedIndices(Tail(nums), Append(cited_indices, Head(nums)),
                           seen \cup {Head(nums)})
         ELSE CitedIndices(Tail(nums), cited_indices, seen)

\* lines 233-239 without the lower bound: chunks[-1] is the last chunk
RECURSIVE MapToChunksNoLowerBound(_, _)
MapToChunksNoLowerBound(cited_indices, cs) ==
    IF cited_indices = <<>> THEN <<>>
    ELSE LET citation_num == Head(cited_indices)
             chunk_idx == citation_num - 1
             rest == MapToChunksNoLowerBound(Tail(cited_indices), cs)
         IN  IF chunk_idx < Len(cs) /\ cs # <<>>
             THEN <<cs[IF chunk_idx >= 0 THEN chunk_idx + 1 ELSE Len(cs)]
                      @@ [citation_number |-> citation_num]>> \o rest
             ELSE rest

\* lines 233-239: map the numbers in range to chunks[n - 1]
RECURSIVE MapToChunks(_, _)
MapToChunks(cited_indices, cs) ==
    IF cited_indices = <<>> THEN <<>>
    ELSE LET citation_num == Head(cited_indices)
             chunk_idx == citation_num - 1
             rest == MapToChunks(Tail(cited_indices), cs)
         IN  IF 0 <= chunk_idx /\ chunk_idx < Len(cs)
             THEN <<cs[chunk_idx + 1] @@ [citation_number |-> citation_num]>>
                     \o rest
             ELSE rest

extract_citations(answer, cs) ==
    MapToChunks(CitedIndices(FindCitationNumbers(answer, 1), <<>>, {}), cs)

\* query.py lines 96-105: Citation(...) for one llm citation
Citation(citation) ==
    [citation_number |-> citation.citation_number,
     text |-> citation.text,
     source |-> citation.metadata.source,
     title |-> citation.metadata.title,
     position |-> citation.metadata.position]

\* the chunker while the query pipeline runs
ChunkerParked ==
    /\ text = <<>>
    /\ chunk_size = 1
    /\ chunk_overlap = 0
    /\ encoding = "word"
    /\ ChunkerIdle

InitQuery ==
    /\ request_top_k = RequestTopKDefault
    /\ retrieve_top_k = 0
    /\ IngestParked
    /\ query \in {<<"q">>, <<" ">>}
    /\ QueryIdle
    /\ top_k = <<RerankTopK>>
    /\ qpc = "retrieve"
    /\ ChunkerParked

\* lines 57-58 placed after the embedding of line 64
RetrieveInputErrorAfterEmbedding ==
    /\ qpc = "retrieve"
    /\ IsBlank(query)
    /\ calls' = calls \o EmbedRequests(1)
    /\ response' = Failure(QueryEmpty)
    /\ qpc' = "done"
    /\ UNCHANGED <<query, retrieved_chunks, reranked_chunks, rerank_attempt,
                   rerank_fallback, sources_text, llm_attempt, answer_text,
                   llm_citations, llm_fallback, top_k, rerank_results,
                   index_matches, retrieved_count>>
    /\ retrieve_top_k' = RetrieveTopK
    /\ UNCHANGED <<chunkerVars, ingestVars, request_top_k>>

\* retrieval_service.py lines 57-58: an empty query is an input error, which
\* query_text turns into the generic failure (query.py lines 118-122)
RetrieveInputError ==
    /\ qpc = "retrieve"
    /\ IsBlank(query)
    /\ response' = Failure(QueryEmpty)
    /\ qpc' = "done"
    /\ UNCHANGED <<query, retrieved_chunks, reranked_chunks, rerank_attempt,
                   rerank_fallback, sources_text, llm_attempt, answer_text,
                   llm_citations, llm_fallback, top_k, rerank_results, calls,
                   index_matches, retrieved_count>>
    /\ retrieve_top_k' = RetrieveTopK
    /\ UNCHANGED <<chunkerVars, ingestVars, request_top_k>>

\* retrieval_service.py lines 64-73: the Embedder raises after its last
\* attempt (embedding_service.py lines 54-76), or it answers at some attempt
\* and the Vector Index raises
RetrieveFails ==
    /\ qpc = "retrieve"
    /\ ~IsBlank(query)
    /\ \/ /\ calls' = calls \o EmbedRequestsFailed
          /\ response' = Failure(EmbeddingFailed)
       \/ \E attempts \in 1..EmbedMaxRetries :
             /\ calls' = calls \o EmbedRequests(attempts)
                               \o <<Request("index", FALSE)>>
             /\ response' = Failure(IndexQueryFailed)
    /\ qpc' = "done"
    /\ UNCHANGED <<query, retrieved_chunks, reranked_chunks, rerank_attempt,
                   rerank_fallback, sources_text, llm_attempt, answer_text,
                   llm_citations, llm_fallback, top_k, rerank_results,
                   index_matches, retrieved_count>>
    /\ retrieve_top_k' = RetrieveTopK
    /\ UNCHANGED <<chunkerVars, ingestVars, request_top_k>>

\* the 404 of lines 69-73 caught by the handler of lines 118-122
RetrieveEmptyAsFailure ==
    /\ qpc = "retrieve"
    /\ ~IsBlank(query)
    /\ index_matches' = <<>>
    /\ retrieved_chunks' = FormatMatches(index_matches')
    /\ retrieved_count' = Len(retrieved_chunks')
    /\ \E attempts \in 1..EmbedMaxRetries :
          calls' = calls \o EmbedRequests(attempts) \o <<Request("index", TRUE)>>
    /\ response' = Failure(NotFound.detail)
    /\ qpc' = "done"
    /\ UNCHANGED <<query, reranked_chunks, rerank_attempt, rerank_fallback,
                   sources_text, llm_attempt, answer_text, llm_citations,
                   llm_fallback, top_k, rerank_results>>
    /\ retrieve_top_k' = RetrieveTopK
    /\ UNCHANGED <<chunkerVars, ingestVars, request_top_k>>

\* query.py lines 69-73: no match, the 404 failure
RetrieveEmpty ==
    /\ qpc = "retrieve"
    /\ ~IsBlank(query)
    /\ index_matches' = <<>>
    /\ retrieved_chunks' = FormatMatches(index_matches')
    /\ retrieved_count' = Len(retrieved_chunks')
    /\ \E attempts \in 1..EmbedMaxRetries :
          calls' = calls \o EmbedRequests(attempts) \o <<Request("index", TRUE)>>
    /\ response' = NotFound
    /\ qpc' = "done"
    /\ UNCHANGED <<query, reranked_chunks, rerank_attempt, rerank_fallback,
                   sources_text, llm_attempt, answer_text, llm_citations,
                   llm_fallback, top_k, rerank_results>>
    /\ retrieve_top_k' = RetrieveTopK
    /\ UNCHANGED <<chunkerVars, ingestVars, request_top_k>>

\* retrieve with the index queried before the query is embedded
RetrieveOkIndexFirst ==
    /\ qpc = "retrieve"
    /\ ~IsBlank(query)
    /\ \E n \in MatchCounts : index_matches' = [k \in 1..n |-> IndexMatch(k)]
    /\ retrieved_chunks' = FormatMatches(index_matches')
    /\ retrieved_count' = Len(retrieved_chunks')
    /\ \E attempts \in 1..EmbedMaxRetries :
          calls' = calls \o <<Request("index", TRUE)>> \o EmbedRequests(attempts)
    /\ qpc' = "rerank"
    /\ UNCHANGED <<query, reranked_chunks, rerank_attempt, rerank_fallback,
                   sources_text, llm_attempt, answer_text, llm_citations,
                   llm_fallback, response, top_k, rerank_results>>
    /\ retrieve_top_k' = RetrieveTopK
    /\ UNCHANGED <<chunkerVars, ingestVars, request_top_k>>

\* retrieve and rerank sized by the request's top_k
RetrieveOkRequestTopK ==
    /\ qpc = "retrieve"
    /\ ~IsBlank(query)
    /\ \E n \in {m \in MatchCounts : m <= request_top_k} :
          index_matches' = [k \in 1..n |-> IndexMatch(k)]
    /\ retrieved_chunks' = FormatMatches(index_matches')
    /\ retrieved_count' = Len(retrieved_chunks')
    /\ \E attempts \in 1..EmbedMaxRetries :
          calls' = calls \o EmbedRequests(attempts) \o <<Request("index", TRUE)>>
    /\ qpc' = "rerank"
    /\ retrieve_top_k' = request_top_k
    /\ top_k' = <<request_top_k>>
    /\ UNCHANGED <<query, reranked_chunks, rerank_attempt, rerank_fallback,
                   sources_text, llm_attempt, answer_text, llm_citations,
                   llm_fallback, response, rerank_results>>
    /\ UNCHANGED <<chunkerVars, ingestVars, request_top_k>>

\* query.py lines 57-64, retrieval_service.py lines 60-102: the matches of the
\* index, in the index's order, as chunks
RetrieveOk ==
    /\ qpc = "retrieve"
    /\ ~IsBlank(query)
    /\ \E n \in MatchCounts : index_matches' = [k \in 1..n |-> IndexMatch(k)]
    /\ retrieved_chunks' = FormatMatches(index_matches')
    /\ retrieved_count' = Len(retrieved_chunks')
    /\ \E attempts \in 1..EmbedMaxRetries :
          calls' = calls \o EmbedRequests(attempts) \o <<Request("index", TRUE)>>
    /\ qpc' = "rerank"
    /\ UNCHANGED <<query, reranked_chunks, rerank_attempt, rerank_fallback,
                   sources_text, llm_attempt, answer_text, llm_citations,
                   llm_fallback, response, top_k, rerank_results>>
    /\ retrieve_top_k' = RetrieveTopK
    /\ UNCHANGED <<chunkerVars, ingestVars, request_top_k>>

\* reranker_service.py lines 66-70: `not query or not query.strip()`,
\* `not chunks`
RerankRejects == IsBlank(query) \/ retrieved_chunks = <<>>

\* reranker_service.py lines 66-70: an empty query or an empty chunk list is an
\* input error, raised before the retry loop
RerankInputError ==
    /\ qpc = "rerank"
    /\ RerankRejects
    /\ response' = IF IsBlank(query) THEN Failure(QueryEmpty)
                                     ELSE Failure(NoChunksToRerank)
    /\ qpc' = "done"
    /\ UNCHANGED <<query, retrieved_chunks, reranked_chunks, rerank_attempt,
                   rerank_fallback, sources_text, llm_attempt, answer_text,
                   llm_citations, llm_fallback, top_k, rerank_results, calls,
                   index_matches, retrieved_count>>
    /\ UNCHANGED <<chunkerVars, ingestVars, request_top_k, retrieve_top_k>>

\* reranker_service.py lines 79-143: an attempt that succeeds
RerankSucceeds ==
    /\ qpc = "rerank"
    /\ ~RerankRejects
    /\ \E results \in RerankResults(Len(retrieved_chunks)) :
          /\ rerank_results' = results
          /\ reranked_chunks' =
                Take(SortByScoreDesc(AttachScores(results, retrieved_chunks)),
                     EffectiveTopK(top_k))
    /\ calls' = Append(calls, Request("rerank", TRUE))
    /\ rerank_fallback' = FALSE
    /\ qpc' = "generate"
    /\ UNCHANGED <<query, retrieved_chunks, rerank_attempt, sources_text,
                   llm_attempt, answer_text, llm_citations, llm_fallback,
                   response, top_k, index_matches, retrieved_count>>
    /\ UNCHANGED <<chunkerVars, ingestVars, request_top_k, retrieve_top_k>>

\* the loop of line 79 running for one attempt more than max_retries
RerankAttemptFailsAgain ==
    /\ qpc = "rerank"
    /\ ~RerankRejects
    /\ rerank_attempt < RerankMaxRetries
    /\ rerank_attempt' = rerank_attempt + 1
    /\ calls' = Append(calls,
                       Retried("rerank",
                               RerankRetryDelay * (rerank_attempt + 1)))
    /\ UNCHANGED <<query, retrieved_chunks, reranked_chunks, rerank_fallback,
                   sources_text, llm_attempt, answer_text, llm_citations,
                   llm_fallback, response, qpc, top_k, rerank_results,
                   index_matches, retrieved_count>>
    /\ UNCHANGED <<chunkerVars, ingestVars, request_top_k, retrieve_top_k>>

\* reranker_service.py lines 145-148: an attempt that fails, not the last
RerankAttemptFails ==
    /\ qpc = "rerank"
    /\ ~RerankRejects
    /\ rerank_attempt < RerankMaxRetries - 1
    /\ rerank_attempt' = rerank_attempt + 1
    /\ calls' = Append(calls,
                       Retried("rerank",
                               RerankRetryDelay * (rerank_attempt + 1)))
    /\ UNCHANGED <<query, retrieved_chunks, reranked_chunks, rerank_fallback,
                   sources_text, llm_attempt, answer_text, llm_citations,
                   llm_fallback, response, qpc, top_k, rerank_results,
                   index_matches, retrieved_count>>
    /\ UNCHANGED <<chunkerVars, ingestVars, request_top_k, retrieve_top_k>>

\* lines 149-161 returning `chunks` instead of `chunks[:top_k]`
RerankFallbackUncut ==
    /\ qpc = "rerank"
    /\ ~RerankRejects
    /\ rerank_attempt = RerankMaxRetries - 1
    /\ reranked_chunks' = retrieved_chunks
    /\ calls' = Append(calls, Request("rerank", FALSE))
    /\ rerank_fallback' = TRUE
    /\ qpc' = "generate"
    /\ UNCHANGED <<query, retrieved_chunks, rerank_attempt, sources_text,
                   llm_attempt, answer_text, llm_citations, llm_fallback,
                   response, top_k, rerank_results, index_matches,
                   retrieved_count>>
    /\ UNCHANGED <<chunkerVars, ingestVars, request_top_k, retrieve_top_k>>

\* reranker_service.py lines 149-161: the last attempt fails, fall back to
\* the retrieval order
RerankFallback ==
    /\ qpc = "rerank"
    /\ ~RerankRejects
    /\ rerank_attempt = RerankMaxRetries - 1
    /\ reranked_chunks' = Take(retrieved_chunks, EffectiveTopK(top_k))
    /\ calls' = Append(calls, Request("rerank", FALSE))
    /\ rerank_fallback' = TRUE
    /\ qpc' = "generate"
    /\ UNCHANGED <<query, retrieved_chunks, rerank_attempt, sources_text,
                   llm_attempt, answer_text, llm_citations, llm_fallback,
                   response, top_k, rerank_results, index_matches,
                   retrieved_count>>
    /\ UNCHANGED <<chunkerVars, ingestVars, request_top_k, retrieve_top_k>>

\* llm_service.py lines 67-68: an empty query is an input error
GenerateInputError ==
    /\ qpc = "generate"
    /\ IsBlank(query)
    /\ response' = Failure(QueryEmpty)
    /\ qpc' = "done"
    /\ UNCHANGED <<query, retrieved_chunks, reranked_chunks, rerank_attempt,
                   rerank_fallback, sources_text, llm_attempt, answer_text,
                   llm_citations, llm_fallback, top_k, rerank_results, calls,
                   index_matches, retrieved_count>>
    /\ UNCHANGED <<chunkerVars, ingestVars, request_top_k, retrieve_top_k>>

\* llm_service.py lines 70-77, with the language model asked all the same
GenerateNoChunksAsksModel ==
    /\ qpc = "generate"
    /\ ~IsBlank(query)
    /\ reranked_chunks = <<>>
    /\ answer_text' = NoInformation
    /\ llm_citations' = <<>>
    /\ calls' = Append(calls, Request("llm", TRUE))
    /\ qpc' = "respond"
    /\ UNCHANGED <<query, retrieved_chunks, reranked_chunks, rerank_attempt,
                   rerank_fallback, sources_text, llm_attempt, llm_fallback,
                   response, top_k, rerank_results, index_matches,
                   retrieved_count>>
    /\ UNCHANGED <<chunkerVars, ingestVars, request_top_k, retrieve_top_k>>

\* llm_service.py lines 70-77: no chunks, the fixed answer
GenerateNoChunks ==
    /\ qpc = "generate"
    /\ ~IsBlank(query)
    /\ reranked_chunks = <<>>
    /\ answer_text' = NoInformation
    /\ llm_citations' = <<>>
    /\ qpc' = "respond"
    /\ UNCHANGED <<query, retrieved_chunks, reranked_chunks, rerank_attempt,
                   rerank_fallback, sources_text, llm_attempt, llm_fallback,
                   response, top_k, rerank_results, calls, index_matches,
                   retrieved_count>>
    /\ UNCHANGED <<chunkerVars, ingestVars, request_top_k, retrieve_top_k>>

\* llm_service.py lines 79-88: the numbered sources of the prompt
BuildPrompt ==
    /\ qpc = "generate"
    /\ ~IsBlank(query)
    /\ reranked_chunks # <<>>
    /\ sources_text' = FormatSources(reranked_chunks)
    /\ qpc' = "llm"
    /\ UNCHANGED <<query, retrieved_chunks, reranked_chunks, rerank_attempt,
                   rerank_fallback, llm_attempt, answer_text, llm_citations,
                   llm_fallback, response, top_k, rerank_results, calls,
                   index_matches, retrieved_count>>
    /\ UNCHANGED <<chunkerVars, ingestVars, request_top_k, retrieve_top_k>>

\* llm_service.py lines 90-130: an attempt that succeeds; the reply is
\* stripped and its citations are extracted
LLMSucceeds ==
    /\ qpc = "llm"
    /\ \E content \in QueryAnswersFor(Len(reranked_chunks)) :
          /\ answer_text' = Strip(content)
          /\ llm_citations' = extract_citations(Strip(content), reranked_chunks)
    /\ calls' = Append(calls, Request("llm", TRUE))
    /\ llm_fallback' = FALSE
    /\ qpc' = "respond"
    /\ UNCHANGED <<query, retrieved_chunks, reranked_chunks, rerank_attempt,
                   rerank_fallback, sources_text, llm_attempt, response, top_k,
                   rerank_results, index_matches, retrieved_count>>
    /\ UNCHANGED <<chunkerVars, ingestVars, request_top_k, retrieve_top_k>>

\* llm_service.py lines 132-134: an attempt that fails, not the last
LLMAttemptFails ==
    /\ qpc = "llm"
    /\ llm_attempt < LLMMaxRetries - 1
    /\ llm_attempt' = llm_attempt + 1
    /\ calls' = Append(calls, Request("llm", FALSE))
    /\ UNCHANGED <<query, retrieved_chunks, reranked_chunks, rerank_attempt,
                   rerank_fallback, sources_text, answer_text, llm_citations,
                   llm_fallback, response, qpc, top_k, rerank_results,
                   index_matches, retrieved_count>>
    /\ UNCHANGED <<chunkerVars, ingestVars, request_top_k, retrieve_top_k>>

\* lines 135-147 raising the last attempt's exception instead of returning
LLMFallbackRaises ==
    /\ qpc = "llm"
    /\ llm_attempt = LLMMaxRetries - 1
    /\ calls' = Append(calls, Request("llm", FALSE))
    /\ response' = Failure("language model request failed")
    /\ qpc' = "done"
    /\ UNCHANGED <<query, retrieved_chunks, reranked_chunks, rerank_attempt,
                   rerank_fallback, sources_text, llm_attempt, answer_text,
                   llm_citations, llm_fallback, top_k, rerank_results,
                   index_matches, retrieved_count>>
    /\ UNCHANGED <<chunkerVars, ingestVars, request_top_k, retrieve_top_k>>

\* llm_service.py lines 135-147: the last attempt fails, the apology
LLMFallback ==
    /\ qpc = "llm"
    /\ llm_attempt = LLMMaxRetries - 1
    /\ answer_text' = Apology
    /\ llm_citations' = <<>>
    /\ calls' = Append(calls, Request("llm", FALSE))
    /\ llm_fallback' = TRUE
    /\ qpc' = "respond"
    /\ UNCHANGED <<query, retrieved_chunks, reranked_chunks, rerank_attempt,
                   rerank_fallback, sources_text, llm_attempt, response, top_k,
                   rerank_results, index_matches, retrieved_count>>
    /\ UNCHANGED <<chunkerVars, ingestVars, request_top_k, retrieve_top_k>>

\* query.py lines 95-114: the response
Respond ==
    /\ qpc = "respond"
    /\ response' = [status |-> 200,
                    answer |-> answer_text,
                    citations |-> [n \in 1..Len(llm_citations) |->
                                      Citation(llm_citations[n])],
                    retrieved_chunks |-> Len(reranked_chunks)]
    /\ qpc' = "done"
    /\ UNCHANGED <<query, retrieved_chunks, reranked_chunks, rerank_attempt,
                   rerank_fallback, sources_text, llm_attempt, answer_text,
                   llm_citations, llm_fallback, top_k, rerank_results, calls,
                   index_matches, retrieved_count>>
    /\ UNCHANGED <<chunkerVars, ingestVars, request_top_k, retrieve_top_k>>

NextQuery ==
    \/ RetrieveInputError
    \/ RetrieveFails
    \/ RetrieveEmpty
    \/ RetrieveOk
    \/ RerankSucceeds
    \/ RerankAttemptFails
    \/ RerankFallback
    \/ BuildPrompt
    \/ LLMSucceeds
    \/ LLMAttemptFails
    \/ LLMFallback
    \/ Respond

SpecQuery == InitQuery /\ [][NextQuery]_vars

(***************************************************************************)
(* query_text for requests that set top_k: schemas.py line 58 admits 1..20 *)
(* and query.py reads only request.query                                   *)
(***************************************************************************)
RequestTopKs == {RequestTopKMin, RequestTopKMax}

InitTopK ==
    /\ request_top_k \in RequestTopKs
    /\ retrieve_top_k = 0
    /\ IngestParked
    /\ query \in {<<"q">>, <<" ">>}
    /\ QueryIdle
    /\ top_k = <<RerankTopK>>
    /\ qpc = "retrieve"
    /\ ChunkerParked

SpecTopK == InitTopK /\ [][NextQuery]_vars

(***************************************************************************)
(* retrieve and rerank as services: query_text's retrieve followed by its  *)
(* rerank, or rerank called with any query, chunk list and top_k           *)
(***************************************************************************)
Queries == {<<"q">>, <<" ">>, <<>>}

InitRerank ==
    /\ request_top_k = RequestTopKDefault
    /\ retrieve_top_k = 0
    /\ IngestParked
    /\ query \in Queries
    /\ \/ /\ qpc = "retrieve"
          /\ top_k = <<RerankTopK>>
          /\ retrieved_chunks = <<>>
       \/ /\ qpc = "rerank"
          /\ top_k \in {<<>>} \cup {<<k>> : k \in 1..MaxTopK}
          /\ \E n \in 0..MaxRerankChunks :
                retrieved_chunks = [k \in 1..n |-> MatchToChunk(IndexMatch(k))]
    /\ reranked_chunks = <<>>
    /\ rerank_attempt = 0
    /\ rerank_fallback = FALSE
    /\ sources_text = <<>>
    /\ llm_attempt = 0
    /\ answer_text = <<>>
    /\ llm_citations = <<>>
    /\ llm_fallback = FALSE
    /\ response = [status |-> 0]
    /\ rerank_results = <<>>
    /\ calls = <<>>
    /\ index_matches = <<>>
    /\ retrieved_count = 0
    /\ ChunkerParked

NextRerank ==
    \/ RetrieveInputError
    \/ RetrieveFails
    \/ RetrieveEmpty
    \/ RetrieveOk
    \/ RerankInputError
    \/ RerankSucceeds
    \/ RerankAttemptFails
    \/ RerankFallback

SpecRerank == InitRerank /\ [][NextRerank]_vars

(***************************************************************************)
(* generate_answer as a service: any query, any list of reranked chunks    *)
(***************************************************************************)
InitGenerate ==
    /\ request_top_k = RequestTopKDefault
    /\ retrieve_top_k = 0
    /\ IngestParked
    /\ query \in Queries
    /\ \E n \in 0..MaxCiteChunks : reranked_chunks = [k \in 1..n |-> RerankedChunk(k)]
    /\ retrieved_chunks = <<>>
    /\ rerank_attempt = 0
    /\ rerank_fallback = FALSE
    /\ sources_text = <<>>
    /\ llm_attempt = 0
    /\ answer_text = <<>>
    /\ llm_citations = <<>>
    /\ llm_fallback = FALSE
    /\ response = [status |-> 0]
    /\ top_k = <<>>
    /\ rerank_results = <<>>
    /\ calls = <<>>
    /\ index_matches = <<>>
    /\ retrieved_count = 0
    /\ qpc = "generate"
    /\ ChunkerParked

NextGenerate ==
    \/ GenerateInputError
    \/ GenerateNoChunks
    \/ BuildPrompt
    \/ LLMSucceeds
    \/ LLMAttemptFails
    \/ LLMFallback

SpecGenerate == InitGenerate /\ [][NextGenerate]_vars

(***************************************************************************)
(* _extract_citations on its own: any answer text, any chunk list          *)
(***************************************************************************)
InitCitations ==
    /\ request_top_k = RequestTopKDefault
    /\ retrieve_top_k = 0
    /\ IngestParked
    /\ answer_text \in CiteAnswers
    /\ \E n \in 0..MaxCiteChunks : reranked_chunks = [k \in 1..n |-> RerankedChunk(k)]
    /\ query = <<"q">>
    /\ retrieved_chunks = <<>>
    /\ rerank_attempt = 0
    /\ rerank_fallback = FALSE
    /\ sources_text = <<>>
    /\ llm_attempt = 0
    /\ llm_citations = <<>>
    /\ llm_fallback = FALSE
    /\ response = [status |-> 0]
    /\ top_k = <<>>
    /\ rerank_results = <<>>
    /\ calls = <<>>
    /\ index_matches = <<>>
    /\ retrieved_count = 0
    /\ qpc = "extract"
    /\ ChunkerParked

\* llm_service.py line 109: citations = self._extract_citations(answer_text, chunks)
ExtractCitations ==
    /\ qpc = "extract"
    /\ llm_citations' = extract_citations(answer_text, reranked_chunks)
    /\ qpc' = "extracted"
    /\ UNCHANGED <<query, retrieved_chunks, reranked_chunks, rerank_attempt,
                   rerank_fallback, sources_text, llm_attempt, answer_text,
                   llm_fallback, response, top_k, rerank_results, calls,
                   index_matches, retrieved_count>>
    /\ UNCHANGED <<chunkerVars, ingestVars, request_top_k, retrieve_top_k>>

NextCitations == ExtractCitations

SpecCitations == InitCitations /\ [][NextCitations]_vars

(***************************************************************************)
(* ingest_text (routers/ingest.py): chunk the text, embed the chunks,      *)
(* upsert them into the vector index                                       *)
(***************************************************************************)
\* hashlib.md5(s.encode()).hexdigest(): the digest of a string, distinct
\* strings taken to have distinct digests
MD5(s) == [md5 |-> s]

\* ingest.py line 52: the first 12 hex digits of the digest of the text
DocumentId(t) == [md5_12 |-> t]

\* str(n) for an integer n >= 0, as characters
RECURSIVE DecimalDigits(_)
DecimalDigits(n) ==
    IF n < 10 THEN <<DigitChars[n + 1]>>
    ELSE DecimalDigits(n \div 10) \o <<DigitChars[(n % 10) + 1]>>

\* lines 80-100 with an id that changes from one request to the next
generate_chunk_id_per_request(t, metadata) ==
    MD5(t \o <<"_">> \o metadata.source \o <<"_">>
          \o DecimalDigits(metadata.position)
          \o <<"_">> \o DecimalDigits(Len(ingest_log)))

\* vector_store.py lines 80-100: md5 of f"{text}_{source}_{position}"
generate_chunk_id(t, metadata) ==
    MD5(t \o <<"_">> \o metadata.source \o <<"_">>
          \o DecimalDigits(metadata.position))

\* chunker.py lines 199-210
chunk_to_dict(chunk) ==
    [text |-> chunk.text,
     metadata |-> [source |-> chunk.source, title |-> chunk.title,
                   section |-> chunk.section, position |-> chunk.position,
                   token_count |-> chunk.token_count]]

\* the vector the embedding API returns for a text
Embedding(t) == [embedding_of |-> t]

\* embedding_service.py lines 94-118: blank texts are dropped, one embedding
\* per remaining text, in the order of the reply
generate_embeddings_batch(texts) ==
    LET valid_texts == SelectSeq(texts, LAMBDA t : ~IsBlank(t))
    IN  [k \in 1..Len(valid_texts) |-> Embedding(valid_texts[k])]

\* vector_store.py lines 135-145: title and section only when they have a value
VectorMetadata(chunk) ==
    [text |-> chunk.text, source |-> chunk.metadata.source,
     position |-> chunk.metadata.position,
     token_count |-> chunk.metadata.token_count]
        @@ (IF chunk.metadata.title # None
               THEN [title |-> chunk.metadata.title]
               ELSE [x \in {} |-> None])
        @@ (IF chunk.metadata.section # None
               THEN [section |-> chunk.metadata.section]
               ELSE [x \in {} |-> None])

\* vector_store.py lines 129-152: the vectors of one upsert
Vectors(chunk_dicts, embeddings) ==
    [k \in 1..Len(chunk_dicts) |->
        [id |-> generate_chunk_id(chunk_dicts[k].text, chunk_dicts[k].metadata),
         values |-> embeddings[k],
         metadata |-> VectorMetadata(chunk_dicts[k])]]

\* index.upsert: a vector replaces the one stored under its id
RECURSIVE IndexUpsert(_, _)
IndexUpsert(index, vectors) ==
    IF vectors = <<>> THEN index
    ELSE IndexUpsert({w \in index : w.id # Head(vectors).id}
                        \cup {Head(vectors)},
                     Tail(vectors))

\* a vector an earlier ingest of another document left in the index
ForeignChunk == TextChunk(<<"Z", ".">>, 0, 1)
ForeignVector ==
    LET chunk == chunk_to_dict(ForeignChunk)
    IN  [id |-> generate_chunk_id(chunk.text, chunk.metadata),
         values |-> Embedding(chunk.text),
         metadata |-> VectorMetadata(chunk)]

\* ingest.py lines 66, 71: the arguments of the embedding and of the upsert
ChunkDicts == [k \in 1..Len(chunks) |-> chunk_to_dict(chunks[k])]
ChunkTexts == [k \in 1..Len(chunks) |-> chunks[k].text]

\* ingest.py lines 104-110 and the index the request left
IngestResponse(index) ==
    [status |-> 200,
     document_id |-> DocumentId(text),
     chunk_count |-> Len(chunks),
     chunks |-> chunks,
     chunk_ids |-> [k \in 1..Len(chunks) |->
                       generate_chunk_id(ChunkDicts[k].text,
                                         ChunkDicts[k].metadata)],
     index |-> index]

IngestError(status, detail, index) ==
    [status |-> status, detail |-> detail, index |-> index]

\* a request body with a non-empty text (schemas.py line 19); the chunker of
\* ingest.py line 13 with its sizes scaled down to the bounds of the model
InitIngest ==
    /\ request_top_k = RequestTopKDefault
    /\ retrieve_top_k = 0
    /\ text \in InputTexts \ {<<>>}
    /\ chunk_size \in 1..MaxChunkSize
    /\ chunk_overlap \in 0..MaxOverlap
    /\ encoding = "word"
    /\ ChunkerIdle
    /\ QueryIdle
    /\ query = <<>>
    /\ qpc = "idle"
    /\ top_k = <<>>
    /\ ingest_pc = "chunk"
    /\ ingest_log = <<>>
    /\ in_flight = <<>>
    /\ \/ vector_index = {} /\ upserted = <<>>
       \/ /\ vector_index = {ForeignVector}
          /\ upserted = <<chunk_to_dict(ForeignChunk)>>

\* lines 62-63: chunk_text returned no chunk
IngestNoChunks ==
    /\ ingest_pc = "chunk"
    /\ pc = "done"
    /\ chunks = <<>>
    /\ ingest_log' = Append(ingest_log,
           IngestError(400, "No chunks generated from input text",
                       vector_index))
    /\ ingest_pc' = "done"
    /\ UNCHANGED <<vector_index, upserted, chunkerVars, queryVars, in_flight>>

\* the exception of line 72 swallowed: the upsert and the response go on
\* without embeddings
IngestEmbeddingFailsGoesOn ==
    /\ ingest_pc = "chunk"
    /\ pc = "done"
    /\ chunks # <<>>
    /\ calls' = calls \o EmbedRequestsFailedTo("embed_batch")
                      \o <<Request("upsert", TRUE)>>
    /\ ingest_log' = Append(ingest_log, IngestResponse(vector_index))
    /\ ingest_pc' = "done"
    /\ UNCHANGED <<vector_index, upserted, chunkerVars, queryLocals, in_flight>>

\* lines 69-77: the batch embedding raised after its retries
IngestEmbeddingFails ==
    /\ ingest_pc = "chunk"
    /\ pc = "done"
    /\ chunks # <<>>
    /\ calls' = calls \o EmbedRequestsFailedTo("embed_batch")
    /\ ingest_log' = Append(ingest_log,
           IngestError(500, "Failed to generate embeddings", vector_index))
    /\ ingest_pc' = "done"
    /\ UNCHANGED <<vector_index, upserted, chunkerVars, queryLocals, in_flight>>

\* lines 80-87: upsert_chunks raised, on a length mismatch (vector_store.py
\* lines 122-123) or on a failed request, which may or may not have been
\* applied by the index
IngestUpsertFails ==
    /\ ingest_pc = "chunk"
    /\ pc = "done"
    /\ chunks # <<>>
    /\ LET embeddings == generate_embeddings_batch(ChunkTexts)
       IN  \/ UNCHANGED <<vector_index, upserted>>
           \/ /\ Len(ChunkDicts) = Len(embeddings)
              /\ vector_index' =
                     IndexUpsert(vector_index, Vectors(ChunkDicts, embeddings))
              /\ upserted' = upserted \o ChunkDicts
    /\ \E attempts \in 1..EmbedMaxRetries :
          calls' = calls \o EmbedRequestsTo("embed_batch", attempts)
                         \o <<Request("upsert", FALSE)>>
    /\ ingest_log' = Append(ingest_log,
           IngestError(500, "Failed to store vectors in Pinecone",
                       vector_index'))
    /\ ingest_pc' = "done"
    /\ UNCHANGED <<chunkerVars, queryLocals, in_flight>>

\* lines 69-110: the chunks are embedded, upserted and reported
IngestStore ==
    /\ ingest_pc = "chunk"
    /\ pc = "done"
    /\ chunks # <<>>
    /\ LET embeddings == generate_embeddings_batch(ChunkTexts)
       IN  /\ Len(ChunkDicts) = Len(embeddings)
           /\ vector_index' =
                  IndexUpsert(vector_index, Vectors(ChunkDicts, embeddings))
    /\ upserted' = upserted \o ChunkDicts
    /\ \E attempts \in 1..EmbedMaxRetries :
          calls' = calls \o EmbedRequestsTo("embed_batch", attempts)
                         \o <<Request("upsert", TRUE)>>
    /\ ingest_log' = Append(ingest_log, IngestResponse(vector_index'))
    /\ ingest_pc' = "done"
    /\ UNCHANGED <<chunkerVars, queryLocals, in_flight>>

\* the same request body is posted again after a successful ingest:
\* chunk_text starts over on the same text
IngestAgain ==
    /\ ingest_pc = "done"
    /\ Len(ingest_log) = 1
    /\ ingest_log[1].status = 200
    /\ ingest_pc' = "chunk"
    /\ sentences' = <<>>
    /\ sent_i' = 0
    /\ chunks' = <<>>
    /\ current_chunk_sentences' = <<>>
    /\ current_token_count' = 0
    /\ position' = 0
    /\ seed_sentences' = <<>>
    /\ seed_tokens' = 0
    /\ trace' = <<>>
    /\ pc' = "start"
    /\ calls' = <<>>
    /\ UNCHANGED <<text, chunk_size, chunk_overlap, encoding, vector_index,
                   ingest_log, upserted, queryLocals, in_flight>>

NextIngest ==
    \/ ChunkEmpty
    \/ SplitText
    \/ OversizedSentence
    \/ CloseChunk
    \/ AppendSentence
    \/ FinalChunk
    \/ IngestNoChunks
    \/ IngestEmbeddingFails
    \/ IngestUpsertFails
    \/ IngestStore
    \/ IngestAgain

SpecIngest == InitIngest /\ [][NextIngest]_vars

(***************************************************************************)
(* The two endpoints of the API (main.py): a request is a query            *)
(* (query_text) or an ingest (ingest_text)                                 *)
(***************************************************************************)
InitApi == InitQuery \/ InitIngest

\* chunk_text runs only within an ingest (ingest.py line 55)
NextApi == NextQuery \/ (ingest_pc # "idle" /\ NextIngest)

SpecApi == InitApi /\ [][NextApi]_vars

(***************************************************************************)
(* upsert_chunks (vector_store.py) called with chunks of any text, source  *)
(* and position                                                            *)
(***************************************************************************)
MaxIdChars == 2       \* characters in a chunk's text and in its source
MaxIdPosition == 1    \* chunk positions range over 0..MaxIdPosition

\* the characters of an id's representation that matter: a letter and the
\* separator of the f-string
IdChars == {"a", "_"}

\* the chunk dictionaries upsert_chunks is called with: a non-blank text,
\* any source
IdChunks ==
    {[text |-> t,
      metadata |-> [source |-> s, title |-> None, section |-> None,
                    position |-> p, token_count |-> 1]] :
        t \in SeqsUpTo(IdChars, MaxIdChars) \ {<<>>},
        s \in SeqsUpTo(IdChars, MaxIdChars),
        p \in 0..MaxIdPosition}

InitChunkId ==
    /\ request_top_k = RequestTopKDefault
    /\ retrieve_top_k = 0
    /\ ChunkerParked
    /\ QueryIdle
    /\ query = <<>>
    /\ qpc = "idle"
    /\ top_k = <<>>
    /\ IngestParked

\* vector_store.py lines 102-163: one chunk with its embedding is upserted
UpsertChunk ==
    /\ Len(upserted) < 2
    /\ \E chunk \in IdChunks :
          /\ vector_index' =
                 IndexUpsert(vector_index,
                             Vectors(<<chunk>>, <<Embedding(chunk.text)>>))
          /\ upserted' = Append(upserted, chunk)
    /\ calls' = Append(calls, Request("upsert", TRUE))
    /\ UNCHANGED <<ingest_pc, ingest_log, chunkerVars, queryLocals, in_flight>>

NextChunkId == UpsertChunk

SpecChunkId == InitChunkId /\ [][NextChunkId]_vars

(***************************************************************************)
(* Properties of chunk_text                                                *)
(***************************************************************************)
Done == pc = "done"

\* the tokenizer's counts of the sentences idxs, added up
RECURSIVE SumTokens(_)
SumTokens(idxs) ==
    IF idxs = <<>> THEN 0
    ELSE count_tokens(sentences[Head(idxs)]) + SumTokens(Tail(idxs))

\* chunk j holds exactly one sentence, and that sentence is over chunk_size
IsOversizedChunk(j) ==
    /\ Len(trace[j].sents) = 1
    /\ count_tokens(sentences[trace[j].sents[1]]) > chunk_size

\* s is the last Len(s) elements of t
IsSuffix(s, t) ==
    /\ Len(s) <= Len(t)
    /\ SubSeq(t, Len(t) - Len(s) + 1, Len(t)) = s

\* s is the longest suffix of t whose token counts add up to at most
\* chunk_overlap (counts are positive, so the sums grow with the length)
IsLongestFittingSuffix(s, t) ==
    /\ IsSuffix(s, t)
    /\ SumTokens(s) <= chunk_overlap
    /\ \/ Len(s) = Len(t)
       \/ SumTokens(SubSeq(t, Len(t) - Len(s), Len(t))) > chunk_overlap

\* txt is the sentences idxs, in that order, with one space between neighbours
RECURSIVE IsSpaceJoined(_, _)
IsSpaceJoined(txt, idxs) ==
    IF idxs = <<>> THEN txt = <<>>
    ELSE LET s == sentences[Head(idxs)]
         IN  /\ Len(txt) >= Len(s)
             /\ SubSeq(txt, 1, Len(s)) = s
             /\ IF Len(idxs) = 1 THEN Len(txt) = Len(s)
                ELSE /\ Len(txt) > Len(s) + 1
                     /\ txt[Len(s) + 1] = " "
                     /\ IsSpaceJoined(SubSeq(txt, Len(s) + 2, Len(txt)), Tail(idxs))

\* the sentences of chunks j.., each without its overlap seed, concatenated
RECURSIVE FreshFrom(_)
FreshFrom(j) ==
    IF j > Len(trace) THEN <<>>
    ELSE SubSeq(trace[j].sents, Len(trace[j].seed) + 1, Len(trace[j].sents))
            \o FreshFrom(j + 1)

\* C3: the positions of the chunks are 0, 1, ..., k-1 in list order, also
\* when oversized-sentence chunks and flushed pending chunks are interleaved.
C3_PositionsContiguous ==
    \A j \in 1..Len(chunks) : chunks[j].position = j - 1

C3_Witness ==
    /\ Done
    /\ \E j \in 2..(Len(chunks) - 1) :
          /\ trace[j].oversized
          /\ ~trace[j - 1].oversized
          /\ ~trace[j + 1].oversized
          /\ chunks[j + 1].position = j

\* C4 (as claimed): every chunk but the last has token_count <= chunk_size,
\* unless it is an oversized-sentence chunk, whose token_count is the count of
\* its one sentence and is > chunk_size.
C4_TokenBudget_Original ==
    Done =>
        \A j \in 1..(Len(chunks) - 1) :
            \/ chunks[j].token_count <= chunk_size
            \/ /\ IsOversizedChunk(j)
               /\ chunks[j].token_count = count_tokens(sentences[trace[j].sents[1]])

\* C4 (amended): every chunk but the last has token_count <= chunk_size, unless
\* it is an oversized-sentence chunk (token_count = the count of its sentence,
\* > chunk_size) or it starts with an overlap seed: then it may pass
\* chunk_size, only as the seed plus one new sentence, and its token_count
\* is <= chunk_size + the seed's tokens <= chunk_size + chunk_overlap.
C4_TokenBudget ==
    Done =>
        \A j \in 1..(Len(chunks) - 1) :
            \/ chunks[j].token_count <= chunk_size
            \/ /\ IsOversizedChunk(j)
               /\ chunks[j].token_count = count_tokens(sentences[trace[j].sents[1]])
            \/ /\ trace[j].seed # <<>>
               /\ Len(trace[j].sents) = Len(trace[j].seed) + 1
               /\ chunks[j].token_count <= chunk_size + trace[j].seed_tokens
               /\ trace[j].seed_tokens <= chunk_overlap

C4_Witness ==
    /\ Done
    /\ \E j \in 1..(Len(chunks) - 1) :
          /\ trace[j].seed # <<>>
          /\ chunks[j].token_count > chunk_size
          /\ ~IsOversizedChunk(j)

\* C5 (as claimed): for every pair of adjacent chunks j, j+1, chunk j+1 starts
\* with a seed that is the longest suffix of chunk j's sentences whose counts
\* add up to <= chunk_overlap, its initial token count is the sum of the seed
\* sentences' counts and is <= chunk_overlap; after an oversized-sentence
\* chunk the seed is empty.
C5_OverlapSeed_Original ==
    \A j \in 1..(Len(trace) - 1) :
        /\ SubSeq(trace[j + 1].sents, 1, Len(trace[j + 1].seed)) = trace[j + 1].seed
        /\ trace[j + 1].seed_tokens = SumTokens(trace[j + 1].seed)
        /\ trace[j + 1].seed_tokens <= chunk_overlap
        /\ IF trace[j].oversized
           THEN trace[j + 1].seed = <<>>
           ELSE IsLongestFittingSuffix(trace[j + 1].seed, trace[j].sents)

\* C5 (amended): the same, for every pair of adjacent chunks j, j+1 in which
\* chunk j+1 is not an oversized-sentence chunk; an oversized-sentence chunk
\* starts with no seed, whatever chunk precedes it.
C5_OverlapSeed ==
    \A j \in 1..(Len(trace) - 1) :
        /\ SubSeq(trace[j + 1].sents, 1, Len(trace[j + 1].seed)) = trace[j + 1].seed
        /\ trace[j + 1].seed_tokens = SumTokens(trace[j + 1].seed)
        /\ trace[j + 1].seed_tokens <= chunk_overlap
        /\ IF trace[j].oversized \/ trace[j + 1].oversized
           THEN trace[j + 1].seed = <<>>
           ELSE IsLongestFittingSuffix(trace[j + 1].seed, trace[j].sents)

C5_Witness ==
    /\ Done
    /\ \E j \in 1..(Len(trace) - 1) :
          /\ ~trace[j].oversized
          /\ ~trace[j + 1].oversized
          /\ Len(trace[j + 1].seed) = 2
          /\ Len(trace[j].sents) > 2

\* the sentence indices that occur in the sequence idxs
Range(idxs) == {idxs[n] : n \in 1..Len(idxs)}

\* C6: every sentence over chunk_size is emitted unsplit as a chunk of exactly
\* that sentence, with token_count the sentence's count; the pending chunk (if
\* any) is emitted immediately before it, with the smaller position; the chunk
\* that follows starts with no overlap seed and zero pre-charged tokens.
C6_OversizedPolicy ==
    \A k \in 1..Len(sentences) :
        (k < sent_i /\ count_tokens(sentences[k]) > chunk_size) =>
            \E j \in 1..Len(chunks) :
                /\ trace[j].sents = <<k>>
                /\ chunks[j].text = sentences[k]
                /\ chunks[j].token_count = count_tokens(sentences[k])
                /\ \A m \in 1..Len(trace) : m # j => k \notin Range(trace[m].sents)
                /\ k \notin Range(current_chunk_sentences)
                /\ (k > 1 /\ count_tokens(sentences[k - 1]) <= chunk_size) =>
                      /\ j > 1
                      /\ trace[j - 1].sents[Len(trace[j - 1].sents)] = k - 1
                      /\ chunks[j - 1].position < chunks[j].position
                /\ IF j < Len(chunks)
                   THEN /\ trace[j + 1].seed = <<>>
                        /\ trace[j + 1].seed_tokens = 0
                        /\ trace[j + 1].sents[1] = k + 1
                   ELSE /\ seed_sentences = <<>>
                        /\ seed_tokens = 0
                        /\ current_chunk_sentences # <<>> =>
                              current_chunk_sentences[1] = k + 1

C6_Witness ==
    /\ Done
    /\ \E j \in 2..(Len(chunks) - 1) :
          /\ trace[j].oversized
          /\ Len(trace[j - 1].sents) >= 2
          /\ chunks[j].token_count > chunk_size
          /\ chunks[j + 1].token_count <= chunk_size
          /\ count_tokens(sentences[trace[j - 1].sents[2]]) <= chunk_overlap

\* C7: no sentence is lost or reordered: when chunk_text returns, the chunks
\* without their overlap seeds, concatenated in position order, are the input
\* sentences exactly once and in order (so the final pending chunk was
\* emitted), every seed is the head of its chunk, and every chunk's text is
\* its sentences joined by single spaces in original order.
C7_NoSentenceLost ==
    /\ Len(trace) = Len(chunks)
    /\ Done =>
          /\ FreshFrom(1) = [k \in 1..Len(sentences) |-> k]
          /\ \A k \in 1..Len(sentences) :
                \E j \in 1..Len(trace) : k \in Range(trace[j].sents)
          /\ \A j \in 1..Len(chunks) :
                /\ SubSeq(trace[j].sents, 1, Len(trace[j].seed)) = trace[j].seed
                /\ \A n \in 1..(Len(trace[j].sents) - 1) :
                      trace[j].sents[n + 1] = trace[j].sents[n] + 1
                /\ IsSpaceJoined(chunks[j].text, trace[j].sents)

C7_Witness ==
    /\ Done
    /\ Len(chunks) >= 2
    /\ trace[Len(trace)].seed # <<>>
    /\ Len(trace[Len(trace)].sents) > Len(trace[Len(trace)].seed) + 1
    /\ chunks[Len(chunks)].token_count < chunk_size

\* C8: the token_count recorded for every chunk is the tokenizer's count of the
\* chunk's joined text, for any deterministic tokenizer.
C8_TokenCountOfJoinedText ==
    \A j \in 1..Len(chunks) :
        chunks[j].token_count = count_tokens(chunks[j].text)

\* the input of the end-to-end scenario: chunk_size 50, chunk_overlap 10,
\* 20 sentences of 5 tokens each
IsScenario ==
    /\ chunk_size = ScenarioChunkSize
    /\ chunk_overlap = ScenarioOverlap
    /\ Len(sentences) = ScenarioSentences
    /\ \A k \in 1..Len(sentences) : count_tokens(sentences[k]) = ScenarioWords

\* C9 (as claimed): the scenario input is chunked into exactly 2 chunks, with
\* positions 0 and 1, chunk 1 beginning with at most 10 tokens taken from the
\* trailing sentences of chunk 0.
C9_Scenario_Original ==
    (Done /\ IsScenario) =>
        /\ Len(chunks) = 2
        /\ chunks[1].position = 0
        /\ chunks[2].position = 1
        /\ trace[2].seed_tokens <= ScenarioOverlap
        /\ IsSuffix(trace[2].seed, trace[1].sents)

\* C9 (amended): the scenario input is chunked into exactly 3 chunks, with
\* positions 0, 1 and 2, chunk 1 beginning with at most 10 tokens taken from
\* the trailing sentences of chunk 0.
C9_Scenario ==
    (Done /\ IsScenario) =>
        /\ Len(chunks) = 3
        /\ chunks[1].position = 0
        /\ chunks[2].position = 1
        /\ chunks[3].position = 2
        /\ trace[2].seed_tokens <= ScenarioOverlap
        /\ trace[2].seed_tokens = SumTokens(trace[2].seed)
        /\ IsSuffix(trace[2].seed, trace[1].sents)
        /\ SubSeq(trace[2].sents, 1, Len(trace[2].seed)) = trace[2].seed

C9_Witness ==
    /\ Done
    /\ IsScenario
    /\ Len(chunks) = 3
    /\ trace[2].seed = <<9, 10>>
    /\ chunks[2].token_count = ScenarioChunkSize

\* C10: an empty or whitespace-only text gives the empty sequence; any other
\* text gives at least one chunk, and every chunk has a text that is not blank
\* and token_count > 0.
C10_EmptyText ==
    Done =>
        IF \A i \in 1..Len(text) : IsSpace(text[i])
        THEN chunks = <<>>
        ELSE /\ Len(chunks) >= 1
             /\ \A j \in 1..Len(chunks) :
                   /\ \E i \in 1..Len(chunks[j].text) : ~IsSpace(chunks[j].text[i])
                   /\ chunks[j].token_count > 0

C10_Witness ==
    /\ Done
    /\ Len(text) > 0
    /\ \A i \in 1..Len(text) : IsSpace(text[i])
    /\ chunks = <<>>

(***************************************************************************)
(* Properties of the citation mapping                                      *)
(***************************************************************************)
\* the places of t where a marker "[digits]" starts, and where it closes
MarkerStarts(t) ==
    {i \in 1..Len(t) :
        /\ t[i] = "["
        /\ \E j \in (i + 2)..Len(t) :
              /\ t[j] = "]"
              /\ \A m \in (i + 1)..(j - 1) : IsDigit(t[m])}

MarkerClose(t, i) ==
    CHOOSE j \in (i + 2)..Len(t) :
        /\ t[j] = "]"
        /\ \A m \in (i + 1)..(j - 1) : IsDigit(t[m])

\* the decimal number written at t[a..b]
RECURSIVE DecimalValue(_, _, _)
DecimalValue(t, a, b) ==
    IF a > b THEN 0
    ELSE DigitValue(t[a]) * 10 ^ (b - a) + DecimalValue(t, a + 1, b)

MarkerValue(t, i) == DecimalValue(t, i + 1, MarkerClose(t, i) - 1)

\* where the value v is first cited in t
FirstCited(t, v) ==
    CHOOSE i \in MarkerStarts(t) :
        /\ MarkerValue(t, i) = v
        /\ \A k \in MarkerStarts(t) : MarkerValue(t, k) = v => i <= k

ScenarioAnswer == Marker(2) \o Marker(1) \o Marker(2) \o Marker(5)

\* C1: the citations _extract_citations returns are: the distinct marker
\* values of the answer that lie in 1..len(chunks), in order of first
\* appearance, each as chunks[n-1] with citation_number = n; markers
\* [2],[1],[2],[5] over 4 chunks give the citations 2, 1.
C1_ExtractCitations ==
    qpc = "extracted" =>
        LET R == llm_citations
            cs == reranked_chunks
            cited == {v \in 1..Len(cs) :
                         \E i \in MarkerStarts(answer_text) :
                             MarkerValue(answer_text, i) = v}
        IN  /\ Len(R) = Cardinality(cited)
            /\ {R[r].citation_number : r \in 1..Len(R)} = cited
            /\ \A r, q \in 1..Len(R) :
                  r < q => FirstCited(answer_text, R[r].citation_number)
                              < FirstCited(answer_text, R[q].citation_number)
            /\ \A r \in 1..Len(R) :
                  LET c == cs[R[r].citation_number]
                  IN  /\ R[r].id = c.id
                      /\ R[r].text = c.text
                      /\ R[r].score = c.score
                      /\ R[r].metadata = c.metadata
                      /\ R[r].reranker_score = c.reranker_score
            /\ (answer_text = ScenarioAnswer /\ Len(cs) = 4) =>
                  /\ Len(R) = 2
                  /\ R[1].citation_number = 2 /\ R[1].text = cs[2].text
                  /\ R[2].citation_number = 1 /\ R[2].text = cs[1].text

C1_Witness ==
    /\ qpc = "extracted"
    /\ answer_text = ScenarioAnswer
    /\ Len(reranked_chunks) = 4
    /\ Len(llm_citations) = 2
    /\ llm_citations[1].citation_number = 2
    /\ llm_citations[2].id = reranked_chunks[1].id

\* C2: in every successful query response, the citation numbered n carries the
\* text, source, title and position of the n-th chunk of the reranked list
\* handed to the synthesizer, which is the chunk labeled [n] in the prompt's
\* source block, whether the reranker succeeded or fell back.
C2_CitationNumbering ==
    (qpc = "done" /\ response.status = 200) =>
        /\ Len(sources_text) = Len(reranked_chunks)
        /\ \A r \in 1..Len(response.citations) :
              LET c == response.citations[r]
                  n == c.citation_number
              IN  /\ n \in 1..Len(reranked_chunks)
                  /\ c.text = reranked_chunks[n].text
                  /\ c.source = reranked_chunks[n].metadata.source
                  /\ c.title = reranked_chunks[n].metadata.title
                  /\ c.position = reranked_chunks[n].metadata.position
                  /\ sources_text[n].label = n
                  /\ sources_text[n].text = c.text
                  /\ sources_text[n].title = c.title

C2_Witness ==
    /\ qpc = "done"
    /\ response.status = 200
    /\ ~rerank_fallback
    /\ Len(reranked_chunks) = 3
    /\ reranked_chunks[2].id # retrieved_chunks[2].id
    /\ \E r \in 1..Len(response.citations) :
          /\ response.citations[r].citation_number = 2
          /\ response.citations[r].text = reranked_chunks[2].text
          /\ response.citations[r].text # retrieved_chunks[2].text

(***************************************************************************)
(* Properties of split_into_sentences                                      *)
(***************************************************************************)
\* t[i..j] is a run of whitespace preceded by one of . ! ? and followed by an
\* uppercase letter
IsBoundaryRun(t, i, j) ==
    /\ 2 <= i
    /\ i <= j
    /\ j < Len(t)
    /\ t[i - 1] \in {".", "!", "?"}
    /\ \A m \in i..j : t[m] \in SpaceChars
    /\ t[j + 1] \in UpperChars

BoundaryRuns(t) ==
    {r \in (1..Len(t)) \X (1..Len(t)) : IsBoundaryRun(t, r[1], r[2])}

\* the n-th smallest element of the set of numbers S
NthSmallest(S, n) == CHOOSE x \in S : Cardinality({y \in S : y < x}) = n - 1

\* where the n-th stretch of t between boundary runs starts and ends
StretchStart(t, n) == NthSmallest({1} \cup {r[2] + 1 : r \in BoundaryRuns(t)}, n)
StretchEnd(t, n) == NthSmallest({r[1] - 1 : r \in BoundaryRuns(t)} \cup {Len(t)}, n)

\* s is t[a..b] without the whitespace around it
IsStripped(s, t, a, b) ==
    \E x \in a..b : \E y \in x..b :
        /\ s = SubSeq(t, x, y)
        /\ t[x] \notin SpaceChars
        /\ t[y] \notin SpaceChars
        /\ \A m \in (a..(x - 1)) \cup ((y + 1)..b) : t[m] \in SpaceChars

\* C11: split_into_sentences puts a sentence boundary at each run of
\* whitespace preceded by . ! ? and followed by an uppercase letter and nowhere
\* else (a boundary at the end of the text leaves no sentence behind it); the
\* sentences come in the text's order, each non-empty, stripped of the
\* whitespace around it and with its terminal punctuation; the four sentences
\* ending in '.', '!', '?', '.' come back as exactly those four.
C11_SentenceBoundaries ==
    pc = "split" =>
        /\ IF \A i \in 1..Len(text) : text[i] \in SpaceChars
           THEN sentences = <<>>
           ELSE /\ Len(sentences) = Cardinality(BoundaryRuns(text)) + 1
                /\ \A n \in 1..Len(sentences) :
                      /\ sentences[n] # <<>>
                      /\ IsStripped(sentences[n], text,
                                    StretchStart(text, n), StretchEnd(text, n))
                      /\ n < Len(sentences) =>
                            sentences[n][Len(sentences[n])] \in {".", "!", "?"}
        /\ text = FourSentencesText =>
              sentences = <<FirstSentence, SecondSentence, ThirdSentence,
                            FourthSentence>>

C11_Witness ==
    /\ pc = "split"
    /\ text = FourSentencesText
    /\ Len(sentences) = 4
    /\ sentences[2] = SecondSentence

(***************************************************************************)
(* Properties of rerank                                                    *)
(***************************************************************************)
\* rerank has returned (to query_text, or to its caller)
RerankReturned == qpc = "generate"

\* the number of requests sent to the service s, and of those that failed
CallsTo(s) == Cardinality({n \in 1..Len(calls) : calls[n].service = s})
FailedCallsTo(s) ==
    Cardinality({n \in 1..Len(calls) : calls[n].service = s /\ ~calls[n].ok})

\* the top_k the caller of rerank asked for: its argument, or the service's
\* default when it gave none
RequestedTopK == IF top_k = <<>> THEN RerankDefaultTopK ELSE top_k[1]

HasRerankerScore(c) == "reranker_score" \in DOMAIN c

\* the place of the returned chunk c in the input list of rerank
InputPlace(c) ==
    CHOOSE k \in 1..Len(retrieved_chunks) : retrieved_chunks[k].id = c.id

\* the place, in the relevance model's reply, of the result for the chunk c
ArrivalPlace(c) ==
    CHOOSE a \in 1..Len(rerank_results) :
        rerank_results[a].index + 1 = InputPlace(c)

C13_TiesKeepOrder_Original ==
    (RerankReturned /\ ~rerank_fallback) =>
        \A i, j \in 1..Len(reranked_chunks) :
            (i < j /\ reranked_chunks[i].reranker_score
                         = reranked_chunks[j].reranker_score)
                => InputPlace(reranked_chunks[i]) < InputPlace(reranked_chunks[j])

\* C13 (amended): two returned chunks of equal reranker_score are in the order
\* in which the relevance model returned their results; that is the order of
\* the input list when the model answers in index order.
C13_TiesKeepOrder ==
    (RerankReturned /\ ~rerank_fallback) =>
        \A i, j \in 1..Len(reranked_chunks) :
            (i < j /\ reranked_chunks[i].reranker_score
                         = reranked_chunks[j].reranker_score)
                => /\ ArrivalPlace(reranked_chunks[i])
                         < ArrivalPlace(reranked_chunks[j])
                   /\ (\A a \in 1..Len(rerank_results) :
                          rerank_results[a].index = a - 1)
                         => InputPlace(reranked_chunks[i])
                               < InputPlace(reranked_chunks[j])

C13_Witness ==
    /\ RerankReturned
    /\ ~rerank_fallback
    /\ Len(reranked_chunks) >= 3
    /\ reranked_chunks[1].reranker_score = reranked_chunks[2].reranker_score
    /\ reranked_chunks[2].reranker_score > reranked_chunks[3].reranker_score
    /\ InputPlace(reranked_chunks[1]) > InputPlace(reranked_chunks[2])
    /\ ArrivalPlace(reranked_chunks[3]) = 1

\* C14: after a successful rerank every returned chunk is the input chunk at
\* the index of one of the relevance model's results (same id, text, metadata
\* and retrieval score) with reranker_score the relevance score of that same
\* result, in whatever order the results arrived; no two returned chunks come
\* from the same result.
C14_ScoresByIndex ==
    (RerankReturned /\ ~rerank_fallback) =>
        /\ \A j \in 1..Len(reranked_chunks) :
              \E a \in 1..Len(rerank_results) :
                  LET c == retrieved_chunks[rerank_results[a].index + 1]
                  IN  /\ reranked_chunks[j].id = c.id
                      /\ reranked_chunks[j].text = c.text
                      /\ reranked_chunks[j].metadata = c.metadata
                      /\ reranked_chunks[j].score = c.score
                      /\ reranked_chunks[j].reranker_score
                            = rerank_results[a].relevance_score
        /\ \A i, j \in 1..Len(reranked_chunks) :
              i # j => reranked_chunks[i].id # reranked_chunks[j].id

C14_Witness ==
    /\ RerankReturned
    /\ ~rerank_fallback
    /\ Len(rerank_results) = 3
    /\ rerank_results[1].index = 2
    /\ rerank_results[1].relevance_score = 2
    /\ rerank_results[2].relevance_score = 1
    /\ rerank_results[3].relevance_score = 1
    /\ reranked_chunks[1].id = retrieved_chunks[3].id

\* C15: when every one of the max_retries attempts of the rerank request has
\* failed, rerank raises nothing and returns the first top_k chunks of the
\* input list, unchanged and in input order, marked as a fallback; it falls
\* back in no other case.
C15_RerankFallback ==
    /\ FailedCallsTo("rerank") = RerankMaxRetries =>
          /\ RerankReturned
          /\ rerank_fallback
    /\ (RerankReturned /\ rerank_fallback) =>
          /\ FailedCallsTo("rerank") = RerankMaxRetries
          /\ CallsTo("rerank") = RerankMaxRetries
          /\ rerank_results = <<>>
          /\ response.status = 0
          /\ Len(reranked_chunks) <= RequestedTopK
          /\ Len(reranked_chunks) <= Len(retrieved_chunks)
          /\ \/ Len(reranked_chunks) = RequestedTopK
             \/ Len(reranked_chunks) = Len(retrieved_chunks)
          /\ \A j \in 1..Len(reranked_chunks) :
                reranked_chunks[j] = retrieved_chunks[j]
    /\ CallsTo("rerank") <= RerankMaxRetries

C15_Witness ==
    /\ RerankReturned
    /\ rerank_fallback
    /\ top_k = <<>>
    /\ Len(retrieved_chunks) = 6
    /\ Len(reranked_chunks) = RerankDefaultTopK
    /\ FailedCallsTo("rerank") = RerankMaxRetries

(***************************************************************************)
(* Properties of the services' input checks and fallbacks                  *)
(***************************************************************************)
\* the query is empty or only whitespace
QueryIsBlank == \A i \in 1..Len(query) : query[i] \in SpaceChars

\* an input error has been raised
InputErrorRaised(r) ==
    /\ r.status = 500
    /\ r.detail \in {"Failed to query: Query cannot be empty",
                      "Failed to query: No chunks to rerank"}

\* C16: input errors are rejected before any collaborator is contacted and
\* are not retried: the step retrieve takes on an empty or whitespace-only
\* query raises an input error and sends no request to the Embedder or the
\* Vector Index; the step rerank takes on an empty query or an empty chunk
\* list raises an input error, sends no request to the relevance model and
\* starts no attempt.
C16_InputErrorsFirst ==
    [][/\ (qpc = "retrieve" /\ QueryIsBlank) =>
             /\ InputErrorRaised(response')
             /\ calls' = calls
             /\ retrieved_chunks' = retrieved_chunks
             /\ qpc' = "done"
       /\ (qpc = "rerank" /\ (QueryIsBlank \/ retrieved_chunks = <<>>)) =>
             /\ InputErrorRaised(response')
             /\ calls' = calls
             /\ rerank_attempt' = rerank_attempt
             /\ reranked_chunks' = reranked_chunks
             /\ qpc' = "done"]_vars

C16_Witness ==
    /\ qpc = "done"
    /\ query = <<"q">>
    /\ retrieved_chunks = <<>>
    /\ response.status = 500
    /\ response.detail = "Failed to query: No chunks to rerank"
    /\ calls = <<>>
    /\ rerank_attempt = 0

\* generate_answer has returned
GenerateReturned == qpc = "respond"

\* C17 (as claimed): generate_answer called with an empty chunk list returns,
\* for every query, the fixed "no information" answer and an empty citation
\* list, and sends no request to the language model.
C17_NoChunksAnswer_Original ==
    (reranked_chunks = <<>> /\ qpc # "generate") =>
        /\ GenerateReturned
        /\ answer_text = <<"No relevant information found in the provided sources.">>
        /\ llm_citations = <<>>
        /\ calls = <<>>

\* C17 (amended): generate_answer called with an empty chunk list and a query
\* that is not blank returns the fixed "no information" answer and an empty
\* citation list; called with a blank query it raises the input error before
\* it looks at the chunk list; in both cases it sends no request to the
\* language model.
C17_NoChunksAnswer ==
    (reranked_chunks = <<>> /\ qpc # "generate") =>
        /\ calls = <<>>
        /\ IF QueryIsBlank
           THEN /\ qpc = "done"
                /\ response.status = 500
                /\ response.detail = "Failed to query: Query cannot be empty"
                /\ answer_text = <<>>
           ELSE /\ GenerateReturned
                /\ answer_text
                      = <<"No relevant information found in the provided sources.">>
                /\ llm_citations = <<>>
                /\ response.status = 0

C17_Witness ==
    /\ GenerateReturned
    /\ query = <<"q">>
    /\ reranked_chunks = <<>>
    /\ answer_text = NoInformation
    /\ calls = <<>>

\* C18: when every one of the max_retries requests to the language model has
\* failed, generate_answer raises nothing and returns the fixed apology as the
\* answer, an empty citation list and the fallback mark; it is marked as a
\* fallback in no other case.
C18_SynthesizerFallback ==
    /\ FailedCallsTo("llm") = LLMMaxRetries =>
          /\ GenerateReturned
          /\ llm_fallback
          /\ answer_text =
                <<"I apologize, but I encountered an error while processing your query. Please try again.">>
          /\ llm_citations = <<>>
          /\ response.status = 0
    /\ llm_fallback => FailedCallsTo("llm") = LLMMaxRetries
    /\ CallsTo("llm") <= LLMMaxRetries

C18_Witness ==
    /\ GenerateReturned
    /\ llm_fallback
    /\ Len(reranked_chunks) = 2
    /\ FailedCallsTo("llm") = LLMMaxRetries
    /\ answer_text = Apology

(***************************************************************************)
(* Properties of retrieve                                                  *)
(***************************************************************************)
\* retrieve has returned its result to query_text
RetrieveReturned ==
    /\ qpc # "retrieve"
    /\ calls # <<>>
    /\ calls[Len(calls)].service # "embed"
    /\ \E n \in 1..Len(calls) : calls[n].service = "index" /\ calls[n].ok

\* C19: retrieve returns exactly the matches the Vector Index reported for the
\* query embedding: as many chunks, in the same order, each with its match's
\* id, score and stored text and metadata; the count it reports is the length
\* of the list; when the index reports no match it returns the empty list and
\* raises nothing (the 404 is query_text's, after the return).
C19_RetrieveUnchanged ==
    RetrieveReturned =>
        /\ Len(retrieved_chunks) = Len(index_matches)
        /\ retrieved_count = Len(retrieved_chunks)
        /\ \A k \in 1..Len(index_matches) :
              /\ retrieved_chunks[k].id = index_matches[k].id
              /\ retrieved_chunks[k].score = index_matches[k].score
              /\ retrieved_chunks[k].text = index_matches[k].metadata.text
              /\ retrieved_chunks[k].metadata.source
                    = index_matches[k].metadata.source
              /\ retrieved_chunks[k].metadata.position
                    = index_matches[k].metadata.position
        /\ index_matches = <<>> =>
              /\ retrieved_chunks = <<>>
              /\ retrieved_count = 0
              /\ response.status # 500

C19_Witness ==
    /\ RetrieveReturned
    /\ Len(index_matches) = 3
    /\ retrieved_chunks[3].id = index_matches[3].id
    /\ retrieved_chunks[1].score > retrieved_chunks[3].score
    /\ retrieved_count = 3

(***************************************************************************)
(* Properties of ingest_text                                               *)
(***************************************************************************)
\* the finished ingests that answered 200
Ingested == {n \in DOMAIN ingest_log : ingest_log[n].status = 200}

\* the ids of the vectors an index holds
IndexIds(index) == {v.id : v \in index}

C27_SeededTokenBound ==
    \A j \in 1..Len(chunks) :
        ~IsOversizedChunk(j) =>
            /\ 0 < chunks[j].token_count
            /\ chunks[j].token_count <= chunk_size + chunk_overlap
            /\ chunks[j].token_count > chunk_size => trace[j].seed # <<>>

\* the last chunk is a seeded chunk whose count reaches
\* chunk_size + chunk_overlap
C27_Witness ==
    /\ Done
    /\ Len(chunks) >= 2
    /\ ~IsOversizedChunk(Len(chunks))
    /\ chunk_overlap > 0
    /\ chunks[Len(chunks)].token_count = chunk_size + chunk_overlap

\* C28: every emitted chunk holds a sentence that no earlier chunk holds (it
\* is longer than its overlap seed), so there are at most as many chunks as
\* sentences; the call returns, for every chunk_size >= 1 and
\* chunk_overlap >= 0: the loop can always take its next step, every
\* step of the loop consumes one sentence or returns, and the loop index
\* never passes the end of the sentences by more than one.
C28_Progress ==
    /\ [](/\ \A j \in 1..Len(trace) :
                /\ Len(trace[j].sents) > Len(trace[j].seed)
                /\ \E k \in Range(trace[j].sents) :
                      \A m \in 1..(j - 1) : k \notin Range(trace[m].sents)
          /\ Len(chunks) <= Len(sentences)
          /\ Len(chunks) = Len(trace)
          /\ sent_i <= Len(sentences) + 1
          /\ pc = "loop" => ENABLED NextChunker)
    /\ [][/\ pc = "start" => pc' \in {"loop", "done"}
          /\ pc = "loop" => \/ pc' = "loop" /\ sent_i' = sent_i + 1
                            \/ pc' = "done"
          /\ pc = "done" => pc' = "done"]_vars

\* a finished call with chunk_overlap >= chunk_size in which a chunk after the
\* first started with a seed of two sentences
C28_Witness ==
    /\ Done
    /\ chunk_overlap >= chunk_size
    /\ Len(chunks) >= 3
    /\ \E j \in 2..Len(trace) : Len(trace[j].seed) = 2

(***************************************************************************)
(* Properties of generate_chunk_id                                         *)
(***************************************************************************)
\* the vector of a chunk is stored in the index
IsStored(chunk) ==
    \E v \in vector_index :
        /\ v.metadata.text = chunk.text
        /\ v.metadata.source = chunk.metadata.source
        /\ v.metadata.position = chunk.metadata.position

\* C30: two chunks that differ in text, in source or in position never get
\* the same id from generate_chunk_id, so the upsert of a chunk never
\* overwrites a different chunk: every chunk the index accepted is still
\* stored.
C30_IdsSeparateChunks ==
    /\ \A a \in DOMAIN upserted : \A b \in DOMAIN upserted :
          (\/ upserted[a].text # upserted[b].text
           \/ upserted[a].metadata.source # upserted[b].metadata.source
           \/ upserted[a].metadata.position # upserted[b].metadata.position)
              => generate_chunk_id(upserted[a].text, upserted[a].metadata)
                    # generate_chunk_id(upserted[b].text, upserted[b].metadata)
    /\ \A a \in DOMAIN upserted : IsStored(upserted[a])

IndexAnswered ==
    \E n \in 1..Len(calls) : calls[n].service = "index" /\ calls[n].ok

\* C26: when the Vector Index answers with no match, the request ends with
\* the 404 "No relevant chunks found in the database", passed on as a 404
\* and not as the generic 500, and neither the relevance model nor the
\* language model is called; the 404 is given in no other case
C26_NoChunksNotFound ==
    /\ (IndexAnswered /\ retrieved_count = 0) =>
          /\ qpc = "done"
          /\ response = NotFound
          /\ response.status = 404
          /\ CallsTo("rerank") = 0
          /\ CallsTo("llm") = 0
          /\ reranked_chunks = <<>>
          /\ sources_text = <<>>
    /\ (qpc = "done" /\ response.status = 404) =>
          IndexAnswered /\ retrieved_count = 0

C26_Witness ==
    /\ qpc = "done"
    /\ IndexAnswered
    /\ index_matches = <<>>
    /\ response.status = 404
    /\ CallsTo("embed") = 2

(***************************************************************************)
(* Properties of the retry loops of the services                           *)
(***************************************************************************)
\* the operations with a retry loop and the max_retries of each
RetriedServices == {"embed", "embed_batch", "rerank", "llm"}
MaxRetriesOf(s) ==
    CASE s \in {"embed", "embed_batch"} -> EmbedMaxRetries
      [] s = "rerank" -> RerankMaxRetries
      [] s = "llm" -> LLMMaxRetries

LastIngest == ingest_log[Len(ingest_log)]

\* the number of the attempt that the n-th request of the log is, among the
\* requests to its service
AttemptNumber(n) ==
    Cardinality({m \in 1..n : calls[m].service = calls[n].service})

\* C21: within a request, each of the single embedding, the batch embedding,
\* the rerank and the language-model call makes at most max_retries (3)
\* attempts and none after its first success; after the last failed attempt
\* the operation is over: the Embedder raises (the request fails, nothing
\* further is called), the Reranker returns the first top_k retrieved chunks
\* and the Synthesizer returns the apology, and the request goes on
C21_BoundedRetries ==
    /\ \A s \in RetriedServices :
          /\ CallsTo(s) <= MaxRetriesOf(s)
          /\ \A n \in 1..Len(calls) :
                (calls[n].service = s /\ calls[n].ok) =>
                    \A m \in (n + 1)..Len(calls) : calls[m].service # s
          /\ \A n \in 1..Len(calls) :
                (/\ calls[n].service = s
                 /\ ~calls[n].ok
                 /\ n < Len(calls)
                 /\ AttemptNumber(n) < MaxRetriesOf(s)) =>
                    calls[n + 1].service = s
    /\ FailedCallsTo("embed") = EmbedMaxRetries =>
          /\ qpc = "done"
          /\ response = Failure(EmbeddingFailed)
          /\ CallsTo("index") = 0
    /\ FailedCallsTo("embed_batch") = EmbedMaxRetries =>
          /\ ingest_pc = "done"
          /\ LastIngest.status = 500
          /\ LastIngest.detail = "Failed to generate embeddings"
          /\ CallsTo("upsert") = 0
    /\ FailedCallsTo("rerank") = RerankMaxRetries =>
          /\ qpc \notin {"retrieve", "rerank"}
          /\ rerank_fallback
          /\ reranked_chunks = Take(retrieved_chunks, RerankTopK)
          /\ qpc = "done" => response.status = 200
    /\ FailedCallsTo("llm") = LLMMaxRetries =>
          /\ qpc \in {"respond", "done"}
          /\ llm_fallback
          /\ answer_text = Apology
          /\ llm_citations = <<>>
          /\ qpc = "done" => /\ response.status = 200
                             /\ response.answer = Apology
    /\ (qpc = "done" /\ response.status = 200) =>
          /\ rerank_fallback <=> FailedCallsTo("rerank") = RerankMaxRetries
          /\ llm_fallback <=> FailedCallsTo("llm") = LLMMaxRetries

C21_Witness ==
    /\ qpc = "done"
    /\ response.status = 200
    /\ CallsTo("embed") = EmbedMaxRetries
    /\ FailedCallsTo("embed") = EmbedMaxRetries - 1
    /\ FailedCallsTo("rerank") = RerankMaxRetries
    /\ FailedCallsTo("llm") = LLMMaxRetries
    /\ retrieved_count > 1

\* the base delays the retry loops are configured with (retry_delay)
BaseDelays == {EmbedRetryDelay, RerankRetryDelay}

\* the requests to the services of S are spaced by a linear backoff: a failed
\* attempt n that is not the last is followed by a sleep of base delay * n,
\* and nothing else is followed by a sleep
Backoff(S) ==
    \A s \in S :
        \E base_delay \in BaseDelays :
            \A n \in 1..Len(calls) :
                calls[n].service = s =>
                    calls[n].wait =
                        IF ~calls[n].ok /\ AttemptNumber(n) < MaxRetriesOf(s)
                        THEN base_delay * AttemptNumber(n)
                        ELSE 0

\* C22: for the calls to the Embedder, the Reranker and the Language Model,
\* the caller waits base_delay * n after failed attempt n (n = 1 ..
\* max_retries - 1) before it starts attempt n + 1, and does not wait after
\* the last failed attempt
C22_Backoff == Backoff(RetriedServices)

(***************************************************************************)
(* Properties of the failures of a request                                 *)
(***************************************************************************)
\* the response of a query is a complete result or an explicit failure
CompleteQueryResponse ==
    \/ /\ response.status = 200
       /\ DOMAIN response = {"status", "answer", "citations", "retrieved_chunks"}
       /\ response.answer = answer_text
       /\ Len(response.citations) = Len(llm_citations)
    \/ /\ response.status \in {404, 500}
       /\ DOMAIN response = {"status", "detail"}

\* the response of an ingest is a complete result, with every chunk stored,
\* or an explicit failure
CompleteIngestResponse(r) ==
    \/ /\ r.status = 200
       /\ r.chunk_count = Len(r.chunks)
       /\ r.chunk_count > 0
       /\ Len(r.chunk_ids) = r.chunk_count
       /\ \A k \in DOMAIN r.chunk_ids : r.chunk_ids[k] \in IndexIds(r.index)
    \/ /\ r.status \in {400, 500}
       /\ DOMAIN r = {"status", "detail", "index"}

\* C23: a failure of the Embedder or of the Vector Index ends the request
\* with one failure response and no partial result: when the batch embedding
\* fails in an ingest nothing is upserted and the index is left as it was;
\* when the embedding or the index query fails in a query neither the
\* relevance model nor the language model is called; every request ends with
\* exactly one response, a complete result or an explicit failure
C23_FatalFailures ==
    /\ [](/\ FailedCallsTo("embed_batch") = EmbedMaxRetries =>
                /\ CallsTo("upsert") = 0
                /\ ingest_pc = "done"
                /\ LastIngest.status = 500
                /\ DOMAIN LastIngest = {"status", "detail", "index"}
                /\ LastIngest.index = vector_index
          /\ (FailedCallsTo("embed") = EmbedMaxRetries
                 \/ FailedCallsTo("index") > 0) =>
                /\ CallsTo("rerank") = 0
                /\ CallsTo("llm") = 0
                /\ reranked_chunks = <<>>
                /\ answer_text = <<>>
                /\ qpc = "done"
                /\ response.status = 500
          /\ FailedCallsTo("upsert") > 0 =>
                ingest_pc = "done" /\ LastIngest.status = 500
          /\ qpc = "done" => CompleteQueryResponse
          /\ qpc \in {"retrieve", "rerank", "generate", "llm", "respond"} =>
                response = [status |-> 0]
          /\ \A n \in DOMAIN ingest_log :
                CompleteIngestResponse(ingest_log[n])
          /\ ingest_pc = "done" => ingest_log # <<>>)
    /\ [][/\ response' # response => qpc # "done" /\ qpc' = "done"
          /\ ingest_log' # ingest_log =>
                /\ ingest_pc = "chunk" /\ ingest_pc' = "done"
                /\ Len(ingest_log') = Len(ingest_log) + 1
                /\ SubSeq(ingest_log', 1, Len(ingest_log)) = ingest_log
          /\ (ingest_pc = "chunk" /\ ingest_pc' = "done") =>
                ingest_log' # ingest_log
          /\ (qpc # "done" /\ qpc' = "done") => response' # response
          /\ (FailedCallsTo("embed_batch")' = EmbedMaxRetries
                 /\ calls' # calls) =>
                vector_index' = vector_index /\ upserted' = upserted]_vars

\* an ingest of several chunks that failed on its embeddings, over an index
\* that held a vector
C23_Witness ==
    /\ ingest_pc = "done"
    /\ FailedCallsTo("embed_batch") = EmbedMaxRetries
    /\ LastIngest.status = 500
    /\ vector_index = {ForeignVector}
    /\ Len(chunks) >= 2

(***************************************************************************)
(* Properties of the order of the stages of a request                      *)
(***************************************************************************)
\* the stage of the pipeline a service is requested in
StageOf(s) ==
    CASE s \in {"embed", "embed_batch"} -> 1
      [] s \in {"index", "upsert"} -> 2
      [] s = "rerank" -> 3
      [] s = "llm" -> 4

\* the request before the first request to the service s
BeforeFirst(s) ==
    calls[(CHOOSE n \in 1..Len(calls) :
              /\ calls[n].service = s
              /\ \A m \in 1..(n - 1) : calls[m].service # s) - 1]

\* C24: within a request no stage starts before the one before it has
\* returned: in a query the index is queried after the embedding was
\* obtained, the relevance model is requested after the index answered, and
\* the language model after the rerank answered or fell back; in an ingest
\* the embeddings are requested after chunk_text returned and the upsert
\* after the batch of embeddings of all the chunks was obtained
C24_StageOrder ==
    /\ [](/\ \A n \in 1..Len(calls) : \A m \in 1..(n - 1) :
                StageOf(calls[m].service) <= StageOf(calls[n].service)
          /\ calls # <<>> => calls[1].service \in {"embed", "embed_batch"}
          /\ CallsTo("index") > 0 =>
                /\ CallsTo("index") = 1
                /\ BeforeFirst("index") = Request("embed", TRUE)
          /\ CallsTo("rerank") > 0 =>
                /\ BeforeFirst("rerank") = Request("index", TRUE)
                /\ retrieved_chunks = FormatMatches(index_matches)
                /\ retrieved_chunks # <<>>
          /\ CallsTo("llm") > 0 =>
                /\ BeforeFirst("llm").service = "rerank"
                /\ \/ BeforeFirst("llm").ok /\ ~rerank_fallback
                   \/ /\ FailedCallsTo("rerank") = RerankMaxRetries
                      /\ rerank_fallback
                /\ reranked_chunks # <<>>
                /\ sources_text # <<>>
          /\ CallsTo("upsert") > 0 =>
                /\ CallsTo("upsert") = 1
                /\ BeforeFirst("upsert") = Request("embed_batch", TRUE)
                /\ Len(generate_embeddings_batch(ChunkTexts)) = Len(chunks)
          /\ CallsTo("embed_batch") > 0 => pc = "done" /\ chunks # <<>>)
    /\ [][(CallsTo("embed_batch")' > 0 /\ calls' # calls) =>
              /\ pc = "done"
              /\ chunks' = chunks
              /\ sent_i > Len(sentences)]_vars

\* a query whose embedding, rerank and language-model request were each
\* retried before they answered
C24_Witness ==
    /\ qpc = "done"
    /\ response.status = 200
    /\ FailedCallsTo("embed") = 1
    /\ CallsTo("index") = 1
    /\ FailedCallsTo("rerank") = 1
    /\ FailedCallsTo("llm") = 1
    /\ ~rerank_fallback
    /\ ~llm_fallback

(***************************************************************************)
(* Requests served at the same time.  The handlers share no state but the  *)
(* Pinecone index: the services of ingest.py lines 12-33 and query.py      *)
(* lines 11-38 are assigned once and hold only their configuration, and    *)
(* every other value is a local of the handler.  A request's steps are its *)
(* accesses to the index; the index applies the vectors of an upsert one   *)
(* id at a time, the last writer of an id winning.                         *)
(***************************************************************************)
MaxConcMatches == 2       \* matches a query reads from the index

ConcIngests == {"i1", "i2"}
ConcQueries == {"q1"}

\* the chunks chunk_text returns for the texts "A. B." and "A." with one
\* sentence per chunk, under the title of the request
ConcDocs == {<<<<"A", ".">>, <<"B", ".">>>>, <<<<"A", ".">>>>}
ConcTitles == {None, "t"}
ConcChunks(doc, title) ==
    [k \in 1..Len(doc) |-> [TextChunk(doc[k], k - 1, 1) EXCEPT !.title = title]]

IngestLocals(cs) ==
    [pc |-> "embed", chunks |-> cs, pending |-> {}, written |-> <<>>,
     response |-> [status |-> 0]]
QueryLocals ==
    [pc |-> "retrieve", read |-> <<>>, response |-> [status |-> 0]]

InitConcurrent ==
    /\ request_top_k = RequestTopKDefault
    /\ retrieve_top_k = 0
    /\ ChunkerParked
    /\ QueryIdle
    /\ query = <<"q">>
    /\ qpc = "idle"
    /\ top_k = <<RerankTopK>>
    /\ ingest_pc = "idle"
    /\ ingest_log = <<>>
    /\ upserted = <<chunk_to_dict(ForeignChunk)>>
    /\ vector_index = {ForeignVector}
    /\ \E body \in [ConcIngests -> ConcDocs \X ConcTitles] :
          in_flight = [r \in ConcIngests \cup ConcQueries |->
                          IF r \in ConcIngests
                          THEN IngestLocals(ConcChunks(body[r][1], body[r][2]))
                          ELSE QueryLocals]

\* the chunk dicts of ingest.py line 66 for the request r
ConcChunkDicts(r) ==
    [k \in 1..Len(in_flight[r].chunks) |-> chunk_to_dict(in_flight[r].chunks[k])]

\* ingest.py lines 66-72, vector_store.py lines 122-152: the chunks are
\* embedded and the vectors of the upsert are prepared
ConcEmbedChunks ==
    \E r \in ConcIngests :
        /\ in_flight[r].pc = "embed"
        /\ LET dicts == ConcChunkDicts(r)
               embeddings == generate_embeddings_batch(
                                 [k \in 1..Len(dicts) |-> dicts[k].text])
               vectors == Vectors(dicts, embeddings)
           IN  /\ Len(dicts) = Len(embeddings)
               /\ in_flight' = [in_flight EXCEPT
                                   ![r].pc = "upsert",
                                   ![r].pending = {vectors[k] : k \in 1..Len(vectors)}]
        /\ UNCHANGED <<ingest_pc, vector_index, ingest_log, upserted>>
        /\ UNCHANGED <<chunkerVars, queryVars>>

\* ingest.py lines 73-77: the batch embedding raised
ConcEmbedFails ==
    \E r \in ConcIngests :
        /\ in_flight[r].pc = "embed"
        /\ in_flight' = [in_flight EXCEPT
                            ![r].pc = "done",
                            ![r].response =
                                [status |-> 500,
                                 detail |-> "Failed to generate embeddings"]]
        /\ UNCHANGED <<ingest_pc, vector_index, ingest_log, upserted>>
        /\ UNCHANGED <<chunkerVars, queryVars>>

\* the index keeping the vector it holds under an id instead of the new one
ConcIndexWriteKeepsFirst ==
    \E r \in ConcIngests :
        /\ in_flight[r].pc = "upsert"
        /\ \E v \in in_flight[r].pending :
              /\ vector_index' = vector_index \cup {v}
              /\ in_flight' = [in_flight EXCEPT
                                  ![r].pending = @ \ {v},
                                  ![r].written = Append(@, v)]
        /\ UNCHANGED <<ingest_pc, ingest_log, upserted>>
        /\ UNCHANGED <<chunkerVars, queryVars>>

\* vector_store.py line 156, in the index: one vector of the upsert replaces
\* what the index holds under its id
ConcIndexWrite ==
    \E r \in ConcIngests :
        /\ in_flight[r].pc = "upsert"
        /\ \E v \in in_flight[r].pending :
              /\ vector_index' = IndexUpsert(vector_index, <<v>>)
              /\ in_flight' = [in_flight EXCEPT
                                  ![r].pending = @ \ {v},
                                  ![r].written = Append(@, v)]
        /\ UNCHANGED <<ingest_pc, ingest_log, upserted>>
        /\ UNCHANGED <<chunkerVars, queryVars>>

\* vector_store.py lines 164-165, ingest.py lines 83-87: the upsert request
\* raised; the index applies no further vector of it
ConcUpsertFails ==
    \E r \in ConcIngests :
        /\ in_flight[r].pc = "upsert"
        /\ in_flight' = [in_flight EXCEPT
                            ![r].pc = "done",
                            ![r].pending = {},
                            ![r].response =
                                [status |-> 500,
                                 detail |-> "Failed to store vectors in Pinecone"]]
        /\ UNCHANGED <<ingest_pc, vector_index, ingest_log, upserted>>
        /\ UNCHANGED <<chunkerVars, queryVars>>

\* ingest.py lines 89-110: the upsert returned, the response
ConcIngestResponds ==
    \E r \in ConcIngests :
        /\ in_flight[r].pc = "upsert"
        /\ in_flight[r].pending = {}
        /\ in_flight' = [in_flight EXCEPT
                            ![r].pc = "done",
                            ![r].response =
                                [status |-> 200,
                                 chunk_count |-> Len(in_flight[r].chunks),
                                 chunks |-> in_flight[r].chunks]]
        /\ UNCHANGED <<ingest_pc, vector_index, ingest_log, upserted>>
        /\ UNCHANGED <<chunkerVars, queryVars>>

\* a stored vector as a match of index.query: metadata.get("title") of
\* retrieval_service.py line 84 is None when the vector has no title
StoredMatch(v, rank) ==
    [id |-> v.id, score |-> 10 - rank,
     metadata |-> v.metadata @@ [title |-> None]]

\* the sequences of at most n distinct vectors of the index
Hits(index, n) ==
    {h \in UNION {[1..k -> index] : k \in 1..n} :
        \A a \in DOMAIN h : \A b \in DOMAIN h : a # b => h[a] # h[b]}

\* query.py line 59, retrieval_service.py lines 68-89: the query reads its
\* matches from the index as it is now
ConcRetrieve ==
    \E q \in ConcQueries :
        /\ in_flight[q].pc = "retrieve"
        /\ \E h \in Hits(vector_index, MaxConcMatches) :
              in_flight' = [in_flight EXCEPT
                               ![q].pc = "answer",
                               ![q].read = [k \in DOMAIN h |-> StoredMatch(h[k], k)]]
        /\ UNCHANGED <<ingest_pc, vector_index, ingest_log, upserted>>
        /\ UNCHANGED <<chunkerVars, queryVars>>

\* the replies of the language model to the prompt of a concurrent query
ConcReplies == {Marker(1), Marker(2) \o Marker(1)}

\* the response of query.py lines 95-115 for a reply and a reranked list
ConcResponse(content, reranked) ==
    LET citations == extract_citations(Strip(content), reranked)
    IN  [status |-> 200,
         answer |-> Strip(content),
         citations |-> [n \in 1..Len(citations) |-> Citation(citations[n])],
         retrieved_chunks |-> Len(reranked)]

\* the response built from the index as it is when the answer is made
ConcAnswerFromIndex ==
    \E q \in ConcQueries :
        /\ in_flight[q].pc = "answer"
        /\ \E h \in Hits(vector_index, MaxConcMatches) :
           \E content \in ConcReplies :
              in_flight' = [in_flight EXCEPT
                               ![q].pc = "done",
                               ![q].response =
                                   ConcResponse(content,
                                       FormatMatches([k \in DOMAIN h |->
                                           StoredMatch(h[k], k)]))]
        /\ UNCHANGED <<ingest_pc, vector_index, ingest_log, upserted>>
        /\ UNCHANGED <<chunkerVars, queryVars>>

\* query.py lines 78-115: the chunks read are reranked (kept in order by the
\* fallback, or reordered), the language model replies, the response is built
ConcAnswer ==
    \E q \in ConcQueries :
        /\ in_flight[q].pc = "answer"
        /\ LET cs == FormatMatches(in_flight[q].read)
           IN  \E reranked \in {cs, [k \in DOMAIN cs |-> cs[Len(cs) + 1 - k]]} :
               \E content \in ConcReplies :
                  in_flight' = [in_flight EXCEPT
                                   ![q].pc = "done",
                                   ![q].response = ConcResponse(content, reranked)]
        /\ UNCHANGED <<ingest_pc, vector_index, ingest_log, upserted>>
        /\ UNCHANGED <<chunkerVars, queryVars>>

NextConcurrent ==
    \/ ConcEmbedChunks
    \/ ConcEmbedFails
    \/ ConcIndexWrite
    \/ ConcUpsertFails
    \/ ConcIngestResponds
    \/ ConcRetrieve
    \/ ConcAnswer

SpecConcurrent == InitConcurrent /\ [][NextConcurrent]_vars

(***************************************************************************)
(* Properties of requests served at the same time                          *)
(***************************************************************************)
\* every request has returned
ConcDone ==
    /\ in_flight # <<>>
    /\ \A r \in DOMAIN in_flight : in_flight[r].pc = "done"

\* the orders the ingests can be run in one after another
IngestOrders ==
    {o \in [1..Cardinality(ConcIngests) -> ConcIngests] :
        \A a \in DOMAIN o : \A b \in DOMAIN o : a # b => o[a] # o[b]}

\* the index after the ingests ran one after another in the order o, each
\* upserting the vectors the index accepted from it
RECURSIVE SequentialIndex(_, _)
SequentialIndex(index, o) ==
    IF o = <<>> THEN index
    ELSE SequentialIndex(IndexUpsert(index, in_flight[Head(o)].written), Tail(o))

\* the vectors the index accepted from the ingests
Written == UNION {Range(in_flight[r].written) : r \in ConcIngests}

\* the ingests that wrote an id wrote the same vector under it
WritersAgree == \A v \in Written : \A w \in Written : v.id = w.id => v = w

\* the index holds one vector per id
OneVectorPerId ==
    Cardinality(IndexIds(vector_index)) = Cardinality(vector_index)

\* what a query answers comes from what it read: a finished query cites
\* chunks of the matches it read, as they were when it read them
AnswerFromOwnRead ==
    \A q \in ConcQueries :
        (in_flight # <<>> /\ in_flight[q].pc = "done") =>
            LET r == in_flight[q].response
                read == in_flight[q].read
            IN  /\ r.status = 200
                /\ r.retrieved_chunks = Len(read)
                /\ \A n \in DOMAIN r.citations :
                      \E k \in DOMAIN read :
                          /\ r.citations[n].text = read[k].metadata.text
                          /\ r.citations[n].source = read[k].metadata.source
                          /\ r.citations[n].title = read[k].metadata.title
                          /\ r.citations[n].position = read[k].metadata.position

\* C25 as stated: under every interleaving of concurrent ingests and
\* queries, once all have returned the index equals the index of running the
\* same ingests one after another in some order; the index holds one vector
\* per chunk id; a query's answer and citations come from its own input and
\* from the index content it read
C25_SerialIndex ==
    /\ ConcDone =>
          \E o \in IngestOrders :
              vector_index = SequentialIndex({ForeignVector}, o)
    /\ OneVectorPerId
    /\ AnswerFromOwnRead

\* C25 amended: the index holds one vector per chunk id, and under each id
\* the vector one of the ingests wrote for it (the last writer of that id);
\* it equals the index of running the ingests one after another, in any
\* order, when the ingests that wrote the same id wrote the same vector;
\* ingests that give different titles to chunks of the same id may leave the
\* title of one ingest on one chunk and of the other on another.  A query's
\* answer and citations come from its own input and the index content it
\* read.
C25_LastWriterPerId ==
    /\ OneVectorPerId
    /\ in_flight # <<>> =>
          /\ vector_index \subseteq {ForeignVector} \cup Written
          /\ IndexIds(vector_index) =
                 {ForeignVector.id} \cup {v.id : v \in Written}
          /\ \A r \in ConcIngests :
                in_flight[r].response.status = 200 =>
                    /\ Len(in_flight[r].written) = Len(in_flight[r].chunks)
                    /\ in_flight[r].pending = {}
    /\ (ConcDone /\ WritersAgree) =>
          \A o \in IngestOrders :
              vector_index = SequentialIndex({ForeignVector}, o)
    /\ AnswerFromOwnRead

\* two ingests of the same text under different titles have returned 200 and
\* the index holds the first chunk under one title and the second under the
\* other; the query has answered with a citation
C25_Witness ==
    /\ ConcDone
    /\ \A r \in ConcIngests :
          /\ in_flight[r].response.status = 200
          /\ Len(in_flight[r].chunks) = 2
    /\ ~WritersAgree
    /\ \A o \in IngestOrders :
          vector_index # SequentialIndex({ForeignVector}, o)
    /\ \E q \in ConcQueries : in_flight[q].response.citations # <<>>

====
